---------------------------- MODULE Spec2Model ----------------------------
(***************************************************************************)
(* A model of the HyperStack Python SDK: the per-view Store                *)
(* (hyperstack/store.py) and the WebSocketManager                          *)
(* (hyperstack/websocket.py).                                              *)
(*                                                                         *)
(* JSON values are tagged records [t, v]; a Python Optional is a sequence  *)
(* of length 0 (None) or 1; an OrderedDict is a sequence of [key, val]     *)
(* items in dictionary order.  Entry keys are the integers 1..3, standing  *)
(* for the strings "k1".."k3", whose string order is the integer order.    *)
(***************************************************************************)
EXTENDS Integers, Sequences, FiniteSets, TLC

VARIABLES
    \* ---- Store (store.py 74-97)
    mode,               \* Store.mode
    max_entries,        \* Store.max_entries         (Optional[int])
    sort_config,        \* Store.sort_config         (Optional[SortConfig])
    data,               \* Store._data               (OrderedDict or list)
    sorted_keys,        \* Store._sorted_keys        (list of sort keys)
    key_to_sort_key,    \* Store._key_to_sort_key    (dict)
    last_updates,       \* the Updates put on Store._update_queue by the latest call
    callbacks,          \* Store._callbacks: the listeners, in the order they subscribed
    listener_calls,     \* the listeners the latest call invoked, in order
    update_queue,       \* Store._update_queue, kept while the store has consumers
    consumers,          \* the tasks iterating the store (__aiter__): what each got
    update_log,         \* history: every Update put on the queue, in order
    \* ---- WebSocketManager (websocket.py 41-46); 0 is None
    ws,                 \* WebSocketManager.ws: a transport
    is_running,         \* WebSocketManager.is_running
    reconnect_attempts, \* WebSocketManager.reconnect_attempts
    receive_task,       \* WebSocketManager.receive_task: a task
    ping_task,          \* WebSocketManager.ping_task: a task
    tasks,              \* the asyncio tasks: the caller's (1) and those created
    transport,          \* the transports ws_connect has opened, each with its state
    subs_sent,          \* the transports the on_connect hook has sent on
    \* ---- HyperStackClient (client.py 43-45)
    active_subs,        \* HyperStackClient._active_subs  (dict, as its entry table)
    pending_subs,       \* HyperStackClient._pending_subs (list)
    stores,             \* the views the store registry holds a store for
    wire,               \* the requests written to the transports
    sub_call,           \* the latest subscribe/unsubscribe call and its result
    subscribed,         \* history: the (view, key) pairs subscribe() recorded or found recorded
    inbox,              \* per transport: the messages it has delivered that are not yet handled
    delivered,          \* history: per transport, the messages it has delivered
    handled,            \* history: the messages the message handler has handled
    routed,             \* history: the frames handed to the store registry
    lock,               \* Store._lock: the task that holds it, or NoWorker
    waiters,            \* the tasks waiting for Store._lock, first in line first
    workers,            \* the tasks that call apply_upsert/apply_patch/apply_delete
    \* ---- history variables, written by the specifications, never by the code
    write_order,        \* keys in the order of their latest upsert/patch
    ref,                \* the reference fold of the operations so far
    used_keys,          \* the keys the operations so far have written
    last_call           \* the latest call: [op], with the arguments the updates do not show

streamVars == <<update_queue, consumers, update_log>>
storeVars == <<mode, max_entries, sort_config, data, sorted_keys,
               key_to_sort_key, last_updates, callbacks, listener_calls,
               streamVars>>
histVars == <<write_order, ref, used_keys, last_call>>
connVars == <<ws, is_running, reconnect_attempts, receive_task, ping_task,
              tasks, transport, subs_sent>>
subsVars == <<active_subs, pending_subs, stores, wire, sub_call, subscribed>>
recvVars == <<inbox, delivered, handled, routed>>
lockVars == <<lock, waiters, workers>>
clientVars == <<subsVars, recvVars, lockVars>>
vars == <<storeVars, connVars, clientVars, histVars>>

-----------------------------------------------------------------------------
(* Bounds of the model *)

\* the largest max_entries a store is constructed with
MaxCap == 2
\* arrays longer than this are not built (apply_patch is not called then)
MaxArr == 2
\* an append-mode store is not grown beyond this many elements
MaxAppend == 2


-----------------------------------------------------------------------------
(* Python values *)

None == <<>>
Some(x) == <<x>>
IsNone(o) == Len(o) = 0

Null == [t |-> "null", v |-> 0]
Bool(b) == [t |-> "bool", v |-> b]
Num(n) == [t |-> "num", v |-> n]
Str(s) == [t |-> "str", v |-> s]
Arr(s) == [t |-> "list", v |-> s]
Obj(f) == [t |-> "dict", v |-> f]

EmptyFcn == [f \in {} |-> Null]
EmptyObj == Obj(EmptyFcn)
Obj1(f, x) == Obj([g \in {f} |-> x])
Obj2(f1, x1, f2, x2) == Obj([g \in {f1, f2} |-> IF g = f1 THEN x1 ELSE x2])

IsDict(x) == x.t = "dict"
IsList(x) == x.t = "list"

\* dict.get(key): None (JSON null) when the member is missing
DictGet(d, f) == IF f \in DOMAIN d.v THEN d.v[f] ELSE Null

\* str(value) of the lists and dicts the model builds
PyStr(x) ==
    CASE x = Arr(<<>>) -> "[]"
      [] x = Arr(<<1>>) -> "[1]"
      [] x = Arr(<<2>>) -> "[2]"
      [] OTHER -> "{}"

\* Python's order on the strings of the model: "[1]" < "[2]" < "[]" < "x" < "y" < "{}"
StrOrder == <<"[1]", "[2]", "[]", "x", "y", "{}">>
StrRank(s) == CHOOSE i \in 1..Len(StrOrder) : StrOrder[i] = s


-----------------------------------------------------------------------------
(* store.py: sort keys *)

RECURSIVE extract_sort_value(_, _)
\* Optional: None when a segment is missing, null, or met on a non-dict
extract_sort_value(current, field_path) ==
    IF field_path = <<>> THEN Some(current)
    ELSE IF IsDict(current)
         THEN LET nxt == DictGet(current, Head(field_path))
              IN  IF nxt = Null THEN None
                  ELSE extract_sort_value(nxt, Tail(field_path))
         ELSE None

\* mutant: no value is inverted for the descending order
make_sort_key_plain(value, key, order) ==
    IF IsNone(value) THEN <<0, 0, key>>
    ELSE LET x == value[1] IN
         CASE x.t = "bool" -> <<1, x.v, key>>
           [] x.t = "num" -> <<2, x.v, key>>
           [] x.t = "str" -> <<3, x.v, key>>
           [] OTHER -> <<4, PyStr(x), key>>

\* ((kind, sort value), key) as <<kind, sort value, key>>
make_sort_key(value, key, order) ==
    IF IsNone(value) THEN <<0, 0, key>>
    ELSE LET x == value[1] IN
         CASE x.t = "bool" ->
                <<1, IF order = "desc" THEN ~x.v ELSE x.v, key>>
           [] x.t = "num" ->
                <<2, IF order = "desc" THEN -x.v ELSE x.v, key>>
           [] x.t = "str" -> <<3, x.v, key>>
           [] OTHER -> <<4, PyStr(x), key>>

\* Python's < on two sort values of one kind
SortValLess(kind, x, y) ==
    CASE kind = 0 -> FALSE
      [] kind = 1 -> (x = FALSE) /\ (y = TRUE)
      [] kind = 2 -> x < y
      [] OTHER -> StrRank(x) < StrRank(y)

\* Python's < on the tuples ((kind, value), key)
SortKeyLess(a, b) ==
    \/ a[1] < b[1]
    \/ /\ a[1] = b[1]
       /\ \/ SortValLess(a[1], a[2], b[2])
          \/ a[2] = b[2] /\ a[3] < b[3]

RECURSIVE bisect_left(_, _, _, _)
bisect_left(a, x, lo, hi) ==
    IF lo < hi
    THEN LET mid == (lo + hi) \div 2
         IN  IF SortKeyLess(a[mid + 1], x) THEN bisect_left(a, x, mid + 1, hi)
             ELSE bisect_left(a, x, lo, mid)
    ELSE lo

RECURSIVE bisect_right(_, _, _, _)
bisect_right(a, x, lo, hi) ==
    IF lo < hi
    THEN LET mid == (lo + hi) \div 2
         IN  IF SortKeyLess(x, a[mid + 1]) THEN bisect_right(a, x, lo, mid)
             ELSE bisect_right(a, x, mid + 1, hi)
    ELSE lo

\* list.insert(i, x) and list.pop(i), i counted from 0
ListInsert(a, i, x) == SubSeq(a, 1, i) \o <<x>> \o SubSeq(a, i + 1, Len(a))
ListPop(a, i) == SubSeq(a, 1, i) \o SubSeq(a, i + 2, Len(a))

insort(a, x) == ListInsert(a, bisect_right(a, x, 0, Len(a)), x)

\* the idiom of _insert_sorted and _remove_sorted: drop old_sort_key if it is found
RemoveSortKey(a, old_sort_key) ==
    LET idx == bisect_left(a, old_sort_key, 0, Len(a))
    IN  IF idx < Len(a) /\ a[idx + 1] = old_sort_key THEN ListPop(a, idx) ELSE a

-----------------------------------------------------------------------------
(* OrderedDict *)

DictKeys(d) == {d[i].key : i \in 1..Len(d)}
DictHas(d, k) == k \in DictKeys(d)
DictIndex(d, k) == CHOOSE i \in 1..Len(d) : d[i].key = k
DictVal(d, k) == d[DictIndex(d, k)].val
DictRemove(d, k) ==
    IF DictHas(d, k) THEN ListPop(d, DictIndex(d, k) - 1) ELSE d
\* d[k] = v: a present key keeps its place, a new key goes last
DictSet(d, k, v) ==
    IF DictHas(d, k) THEN [d EXCEPT ![DictIndex(d, k)].val = v]
    ELSE Append(d, [key |-> k, val |-> v])
move_to_end(d, k) == Append(DictRemove(d, k), [key |-> k, val |-> DictVal(d, k)])
\* the key -> value contents of a keyed store, order forgotten
Contents(d) == [k \in DictKeys(d) |-> DictVal(d, k)]

FcnSet(f, k, v) == [x \in DOMAIN f \cup {k} |-> IF x = k THEN v ELSE f[x]]
FcnRemove(f, k) == [x \in DOMAIN f \ {k} |-> f[x]]

IsKeyed == mode \in {"list", "state"}


-----------------------------------------------------------------------------
(* store.py: the index and the capacity bound.  st is the triple the       *)
(* handlers change: [data, sorted_keys, key_to_sort_key].                  *)

StoreState == [data |-> data, sorted_keys |-> sorted_keys,
               key_to_sort_key |-> key_to_sort_key]

\* the sort key _insert_sorted and _rebuild_sorted_keys compute for an entry
entry_sort_key(config, key, d) ==
    LET raw_data == IF IsDict(d) THEN d ELSE EmptyObj
        sort_value == extract_sort_value(raw_data, config.field)
    IN  make_sort_key(sort_value, key, config.order)

\* mutant: the entry's old sort key stays in the index
insert_sorted_stale(st, key, d) ==
    IF IsNone(sort_config) THEN st
    ELSE LET sort_key == entry_sort_key(sort_config[1], key, d)
         IN  [st EXCEPT !.key_to_sort_key = FcnSet(@, key, sort_key),
                        !.sorted_keys = insort(@, sort_key)]

insert_sorted(st, key, d) ==
    IF IsNone(sort_config) THEN st
    ELSE LET removed == IF key \in DOMAIN st.key_to_sort_key
                        THEN RemoveSortKey(st.sorted_keys, st.key_to_sort_key[key])
                        ELSE st.sorted_keys
             sort_key == entry_sort_key(sort_config[1], key, d)
         IN  [st EXCEPT !.key_to_sort_key = FcnSet(@, key, sort_key),
                        !.sorted_keys = insort(removed, sort_key)]

\* mutant: the key leaves the dict of sort keys and stays in the list
remove_sorted_listed(st, key) ==
    IF IsNone(sort_config) \/ key \notin DOMAIN st.key_to_sort_key THEN st
    ELSE [st EXCEPT !.key_to_sort_key = FcnRemove(@, key)]

remove_sorted(st, key) ==
    IF IsNone(sort_config) \/ key \notin DOMAIN st.key_to_sort_key THEN st
    ELSE [st EXCEPT !.key_to_sort_key = FcnRemove(@, key),
                    !.sorted_keys = RemoveSortKey(@, st.key_to_sort_key[key])]

RECURSIVE enforce_loop(_)
\* the while loop of _enforce_max_entries on an OrderedDict
enforce_loop(st) ==
    IF Len(st.data) > max_entries[1]
    THEN IF ~IsNone(sort_config) /\ st.sorted_keys # <<>>
         THEN LET last_sort_key == st.sorted_keys[Len(st.sorted_keys)]
                  evicted_key == last_sort_key[3]
              IN  enforce_loop(
                    [data |-> DictRemove(st.data, evicted_key),
                     sorted_keys |-> SubSeq(st.sorted_keys, 1, Len(st.sorted_keys) - 1),
                     key_to_sort_key |-> FcnRemove(st.key_to_sort_key, evicted_key)])
         ELSE enforce_loop([st EXCEPT !.data = Tail(@)])
    ELSE st

enforce_max_entries(st) ==
    IF IsNone(max_entries) THEN st
    ELSE IF IsKeyed THEN enforce_loop(st)
    ELSE st

RECURSIVE rebuild_loop(_, _, _)
\* the for loop of _rebuild_sorted_keys over the items not yet visited
rebuild_loop(config, st, items) ==
    IF items = <<>> THEN st
    ELSE LET sort_key == entry_sort_key(config, Head(items).key, Head(items).val)
         IN  rebuild_loop(config,
               [st EXCEPT !.key_to_sort_key = FcnSet(@, Head(items).key, sort_key),
                          !.sorted_keys = insort(@, sort_key)],
               Tail(items))

\* _rebuild_sorted_keys, run with self.sort_config = config
rebuild_sorted_keys(config) ==
    LET cleared == [StoreState EXCEPT !.sorted_keys = <<>>,
                                      !.key_to_sort_key = EmptyFcn]
    IN  IF IsNone(config) \/ ~IsKeyed THEN cleared
        ELSE rebuild_loop(config[1], cleared, data)

parse_data(d) == d

\* The listeners are callables; the model has three: listener 1 returns,
\* listener 2 raises, listener 3 unsubscribes itself from the store and
\* returns.
Listeners == {1, 2, 3}
Raising == {2}
OneShot == {3}

\* the body of Store.unsubscribe on the list cbs
callbacks_remove(cbs, callback) ==
    IF \E i \in 1..Len(cbs) : cbs[i] = callback
    THEN LET i == CHOOSE i \in 1..Len(cbs) :
                      cbs[i] = callback /\ \A j \in 1..(i - 1) : cbs[j] # callback
         IN  SubSeq(cbs, 1, i - 1) \o SubSeq(cbs, i + 1, Len(cbs))
    ELSE cbs

RECURSIVE notify_loop(_, _, _)
\* the for loop of _notify_update over the list self._callbacks, from place
\* i on: each listener is called inside try/except Exception, and what it
\* does to the list is seen by the loop
notify_loop(cbs, i, calls) ==
    IF i > Len(cbs) THEN [callbacks |-> cbs, calls |-> calls]
    ELSE LET callback == cbs[i]
             cbs1 == IF callback \in OneShot THEN callbacks_remove(cbs, callback)
                     ELSE cbs
         IN  notify_loop(cbs1, i + 1, Append(calls, callback))

\* self._update_queue.put(update): the queue is unbounded and nothing but
\* __aiter__ reads it, so the model keeps its contents only for a store that
\* has consumers
queue_put(update) ==
    /\ IF consumers = <<>>
       THEN UNCHANGED <<update_queue, update_log>>
       ELSE /\ update_queue' = Append(update_queue, update)
            /\ update_log' = Append(update_log, update)
    /\ UNCHANGED consumers

\* _notify_update: one Update on the queue, then the listeners
notify_update(key, d) ==
    LET run == notify_loop(callbacks, 1, <<>>)
    IN  /\ last_updates' = <<[key |-> key, data |-> d]>>
        /\ queue_put([key |-> key, data |-> d])
        /\ listener_calls' = run.calls
        /\ callbacks' = run.callbacks

\* a call that notifies nobody
no_update ==
    /\ last_updates' = <<>>
    /\ listener_calls' = <<>>
    /\ UNCHANGED <<callbacks, streamVars>>

SetStore(st) ==
    /\ data' = st.data
    /\ sorted_keys' = st.sorted_keys
    /\ key_to_sort_key' = st.key_to_sort_key


-----------------------------------------------------------------------------
(* store.py: the handlers.  Every handler runs without suspending: the     *)
(* lock is free when it is taken and the queue is unbounded.               *)

InList(x, l) == \E i \in 1..Len(l) : l[i] = x

RECURSIVE deep_merge_with_append(_, _, _, _)
\* mutant: a nested object is replaced, not merged
deep_merge_shallow(target, source, append_paths, current_path) ==
    Obj([key \in DOMAIN target.v \cup DOMAIN source.v |->
        IF key \notin DOMAIN source.v THEN target.v[key]
        ELSE LET field_path == IF current_path # "" THEN current_path \o "." \o key
                               ELSE key
                 source_value == source.v[key]
                 target_value == DictGet(target, key)
             IN  IF IsList(source_value) /\ IsList(target_value)
                    /\ InList(field_path, append_paths)
                 THEN Arr(target_value.v \o source_value.v)
                 ELSE source_value])

\* mutant: the path of an array is not looked up in append_paths
deep_merge_replace(target, source, append_paths, current_path) ==
    Obj([key \in DOMAIN target.v \cup DOMAIN source.v |->
        IF key \notin DOMAIN source.v THEN target.v[key]
        ELSE LET field_path == IF current_path # "" THEN current_path \o "." \o key
                               ELSE key
                 source_value == source.v[key]
                 target_value == DictGet(target, key)
             IN  IF IsDict(source_value) /\ IsDict(target_value)
                 THEN deep_merge_with_append(target_value, source_value,
                                             append_paths, field_path)
                 ELSE source_value])

deep_merge_with_append(target, source, append_paths, current_path) ==
    Obj([key \in DOMAIN target.v \cup DOMAIN source.v |->
        IF key \notin DOMAIN source.v THEN target.v[key]
        ELSE LET field_path == IF current_path # "" THEN current_path \o "." \o key
                               ELSE key
                 source_value == source.v[key]
                 target_value == DictGet(target, key)
             IN  IF IsList(source_value) /\ IsList(target_value)
                 THEN IF InList(field_path, append_paths)
                      THEN Arr(target_value.v \o source_value.v)
                      ELSE source_value
                 ELSE IF IsDict(source_value) /\ IsDict(target_value)
                      THEN deep_merge_with_append(target_value, source_value,
                                                  append_paths, field_path)
                      ELSE source_value])

\* mutant: the patch is stored as it came, not merged
patch_merged_replace(key, patch, append_paths) == patch

\* what apply_patch stores for key
patch_merged(key, patch, append_paths) ==
    LET current == IF DictHas(data, key) THEN DictVal(data, key) ELSE EmptyObj
    IN  IF IsDict(current)
        THEN deep_merge_with_append(current, patch, append_paths, "")
        ELSE patch

\* the keyed branch shared by apply_upsert and apply_patch: store, index, bound
store_keyed(key, parsed_data, raw) ==
    LET stored == [StoreState EXCEPT !.data = DictSet(@, key, parsed_data)]
        placed == IF ~IsNone(sort_config) THEN insert_sorted(stored, key, raw)
                  ELSE [stored EXCEPT !.data = move_to_end(@, key)]
    IN  enforce_max_entries(placed)

apply_upsert(key, value) ==
    LET parsed_data == parse_data(value)
    IN  /\ IF IsKeyed
           THEN SetStore(store_keyed(key, parsed_data, value))
           ELSE /\ data' = Append(data, parsed_data)
                /\ UNCHANGED <<sorted_keys, key_to_sort_key>>
        /\ notify_update(key, parsed_data)
        /\ UNCHANGED <<mode, max_entries, sort_config>>

apply_patch(key, patch, append_paths) ==
    /\ IF IsKeyed
       THEN LET merged == patch_merged(key, patch, append_paths)
                parsed_data == parse_data(merged)
            IN  /\ SetStore(store_keyed(key, parsed_data, merged))
                /\ notify_update(key, parsed_data)
       ELSE /\ data' = Append(data, parse_data(patch))
            /\ UNCHANGED <<sorted_keys, key_to_sort_key>>
            /\ notify_update(key, parse_data(patch))
    /\ UNCHANGED <<mode, max_entries, sort_config>>

\* mutant: a tombstone also for a key the store does not hold
apply_delete_always(key) ==
    /\ IF IsKeyed
       THEN LET removed == remove_sorted(StoreState, key)
            IN  /\ SetStore([removed EXCEPT !.data = DictRemove(@, key)])
                /\ notify_update(key, Null)
       ELSE /\ UNCHANGED <<data, sorted_keys, key_to_sort_key>>
            /\ no_update
    /\ UNCHANGED <<mode, max_entries, sort_config>>

apply_delete(key) ==
    /\ IF IsKeyed /\ DictHas(data, key)
       THEN LET removed == remove_sorted(StoreState, key)
            IN  /\ SetStore([removed EXCEPT !.data = DictRemove(@, key)])
                /\ notify_update(key, Null)
       ELSE /\ UNCHANGED <<data, sorted_keys, key_to_sort_key>>
            /\ no_update
    /\ UNCHANGED <<mode, max_entries, sort_config>>

\* get(key), key given: an unsorted keyed store moves the entry to the end
get(key) ==
    /\ data' = IF IsKeyed /\ DictHas(data, key) /\ IsNone(sort_config)
               THEN move_to_end(data, key)
               ELSE data
    /\ no_update
    /\ UNCHANGED <<mode, max_entries, sort_config, sorted_keys, key_to_sort_key>>

\* the value get(key) returns (Optional)
get_result(key) ==
    IF IsKeyed
    THEN IF DictHas(data, key) THEN Some(DictVal(data, key)) ELSE None
    ELSE IF data # <<>> THEN Some(data[1]) ELSE None

\* the value get() returns: the primary entry (Optional)
get_primary ==
    IF IsKeyed
    THEN IF ~IsNone(sort_config) /\ sorted_keys # <<>>
         THEN LET first_key == sorted_keys[1][3]
              IN  IF DictHas(data, first_key) THEN Some(DictVal(data, first_key))
                  ELSE None
         ELSE IF data # <<>> THEN Some(data[1].val) ELSE None
    ELSE IF data # <<>> THEN Some(data[1]) ELSE None

keys_sorted ==
    IF ~IsKeyed THEN <<>>
    ELSE IF ~IsNone(sort_config) /\ sorted_keys # <<>>
         THEN [i \in 1..Len(sorted_keys) |-> sorted_keys[i][3]]
         ELSE [i \in 1..Len(data) |-> data[i].key]

list_sorted ==
    IF ~IsKeyed THEN data
    ELSE IF ~IsNone(sort_config) /\ sorted_keys # <<>>
         THEN LET held == SelectSeq(sorted_keys, LAMBDA sk : DictHas(data, sk[3]))
              IN  [i \in 1..Len(held) |-> DictVal(data, held[i][3])]
         ELSE [i \in 1..Len(data) |-> data[i].val]

\* get(), list_sorted(), keys_sorted(): reads that change nothing
read_only ==
    /\ no_update
    /\ UNCHANGED <<mode, max_entries, sort_config, data, sorted_keys,
                   key_to_sort_key>>

\* mutant: a later configuration replaces the first
set_sort_config_replace(config) ==
    /\ sort_config' = Some(config)
    /\ SetStore(rebuild_sorted_keys(Some(config)))
    /\ no_update
    /\ UNCHANGED <<mode, max_entries>>

set_sort_config(config) ==
    /\ IF ~IsNone(sort_config)
       THEN UNCHANGED <<sort_config, data, sorted_keys, key_to_sort_key>>
       ELSE /\ sort_config' = Some(config)
            /\ SetStore(rebuild_sorted_keys(Some(config)))
    /\ no_update
    /\ UNCHANGED <<mode, max_entries>>


-----------------------------------------------------------------------------
(* The reference semantics of the operations (history variable ref): an    *)
(* upsert replaces, a patch merges, a delete removes.                      *)

RECURSIVE RefMerge(_, _, _, _)
\* target merged with source, both found at the dotted path
RefMerge(target, source, append_paths, path) ==
    CASE IsDict(target) /\ IsDict(source) ->
           Obj([f \in DOMAIN target.v \cup DOMAIN source.v |->
                CASE f \notin DOMAIN source.v -> target.v[f]
                  [] f \notin DOMAIN target.v -> source.v[f]
                  [] OTHER -> RefMerge(target.v[f], source.v[f], append_paths,
                                       IF path = "" THEN f ELSE path \o "." \o f)])
      [] IsList(target) /\ IsList(source) /\ InList(path, append_paths) ->
           Arr(target.v \o source.v)
      [] OTHER -> source

RefUpsert(r, key, value) == FcnSet(r, key, value)
RefPatch(r, key, patch, append_paths) ==
    FcnSet(r, key, RefMerge(IF key \in DOMAIN r THEN r[key] ELSE EmptyObj,
                            patch, append_paths, ""))
RefDelete(r, key) == FcnRemove(r, key)

\* the keys written stay within the capacity bound
WithinCapacity(used) == IsNone(max_entries) \/ Cardinality(used) <= max_entries[1]

-----------------------------------------------------------------------------
(* The calls made on a store, with the history they leave *)

\* Store.__init__: an empty store
StoreEmpty ==
    /\ data = <<>>
    /\ sorted_keys = <<>>
    /\ key_to_sort_key = EmptyFcn
    /\ last_updates = <<>>
    /\ callbacks = <<>>
    /\ listener_calls = <<>>
    /\ update_queue = <<>>
    /\ update_log = <<>>

\* a store nobody iterates
StoreInit ==
    /\ StoreEmpty
    /\ consumers = <<>>

HistInit ==
    /\ write_order = <<>>
    /\ ref = EmptyFcn
    /\ used_keys = {}
    /\ last_call = [op |-> "init"]

\* write_order after key was written and the store became d
Written(key, d) ==
    SelectSeq(Append(SelectSeq(write_order, LAMBDA k : k # key), key),
              LAMBDA k : DictHas(d, k))

\* ref is kept by a specification that folds, while the keys written stay
\* within the capacity bound
Folded(fold, used, r) ==
    IF fold
    THEN /\ used_keys' = used
         /\ ref' = IF IsKeyed /\ WithinCapacity(used) THEN r ELSE EmptyFcn
    ELSE UNCHANGED <<ref, used_keys>>

\* no array of x is longer than MaxArr
RECURSIVE ArraysWithin(_)
ArraysWithin(x) ==
    CASE IsList(x) -> Len(x.v) <= MaxArr
      [] IsDict(x) -> \A f \in DOMAIN x.v : ArraysWithin(x.v[f])
      [] OTHER -> TRUE

CanGrow == IsKeyed \/ Len(data) < MaxAppend

Upsert(K, V, fold) ==
    \E key \in K, value \in V :
        /\ CanGrow
        /\ apply_upsert(key, value)
        /\ write_order' = IF IsKeyed THEN Written(key, data') ELSE write_order
        /\ Folded(fold, used_keys \cup {key}, RefUpsert(ref, key, value))
        /\ last_call' = [op |-> "apply_upsert"]
        /\ UNCHANGED <<connVars, clientVars>>

Patch(K, P, A, fold) ==
    \E key \in K, patch \in P, append_paths \in A :
        /\ CanGrow
        /\ IsKeyed => ArraysWithin(patch_merged(key, patch, append_paths))
        /\ apply_patch(key, patch, append_paths)
        /\ write_order' = IF IsKeyed THEN Written(key, data') ELSE write_order
        /\ Folded(fold, used_keys \cup {key}, RefPatch(ref, key, patch, append_paths))
        /\ last_call' = [op |-> "apply_patch", patch |-> patch,
                         append_paths |-> append_paths]
        /\ UNCHANGED <<connVars, clientVars>>

Delete(K, fold) ==
    \E key \in K :
        /\ apply_delete(key)
        /\ write_order' = SelectSeq(write_order, LAMBDA k : k # key)
        /\ Folded(fold, used_keys, RefDelete(ref, key))
        /\ last_call' = [op |-> "apply_delete", key |-> key]
        /\ UNCHANGED <<connVars, clientVars>>

Get(K) ==
    \E key \in K :
        /\ get(key)
        /\ last_call' = [op |-> "get"]
        /\ UNCHANGED <<connVars, clientVars>>
        /\ UNCHANGED <<write_order, ref, used_keys>>

Read ==
    /\ read_only
    /\ last_call' = [op |-> "read"]
    /\ UNCHANGED <<connVars, clientVars>>
    /\ UNCHANGED <<write_order, ref, used_keys>>

\* Store.subscribe
store_subscribe(callback) ==
    /\ callbacks' = IF \E i \in 1..Len(callbacks) : callbacks[i] = callback
                    THEN callbacks
                    ELSE Append(callbacks, callback)
    /\ last_updates' = <<>>
    /\ listener_calls' = <<>>
    /\ UNCHANGED <<mode, max_entries, sort_config, data, sorted_keys,
                   key_to_sort_key, streamVars>>

\* Store.unsubscribe
store_unsubscribe(callback) ==
    /\ callbacks' = callbacks_remove(callbacks, callback)
    /\ last_updates' = <<>>
    /\ listener_calls' = <<>>
    /\ UNCHANGED <<mode, max_entries, sort_config, data, sorted_keys,
                   key_to_sort_key, streamVars>>

StoreSubscribe(L) ==
    \E callback \in L :
        /\ store_subscribe(callback)
        /\ last_call' = [op |-> "subscribe"]
        /\ UNCHANGED <<connVars, clientVars>>
        /\ UNCHANGED <<write_order, ref, used_keys>>

StoreUnsubscribe(L) ==
    \E callback \in L :
        /\ store_unsubscribe(callback)
        /\ last_call' = [op |-> "unsubscribe"]
        /\ UNCHANGED <<connVars, clientVars>>
        /\ UNCHANGED <<write_order, ref, used_keys>>

\* __aiter__ in consumer c: update = await self._update_queue.get(), then
\* yield update.  Queue.get removes the first item of the queue.
stream_next(c) ==
    /\ update_queue # <<>>
    /\ consumers' = [consumers EXCEPT ![c] = Append(@, Head(update_queue))]
    /\ update_queue' = Tail(update_queue)
    /\ UNCHANGED update_log

StreamNext(c) ==
    /\ stream_next(c)
    /\ last_call' = [op |-> "anext"]
    /\ UNCHANGED <<mode, max_entries, sort_config, data, sorted_keys,
                   key_to_sort_key, last_updates, callbacks, listener_calls>>
    /\ UNCHANGED <<connVars, clientVars>>
    /\ UNCHANGED <<write_order, ref, used_keys>>

SetSortConfig(C) ==
    \E config \in C :
        /\ set_sort_config(config)
        /\ last_call' = [op |-> "set_sort_config", config |-> config]
        /\ UNCHANGED <<connVars, clientVars>>
        /\ UNCHANGED <<write_order, ref, used_keys>>

-----------------------------------------------------------------------------
(* WebSocketManager (websocket.py): the connection, its receive task and its
   keep-alive task.  Every action is one run of a coroutine from one await to
   the next; the event loop runs nothing else in between. *)

\* the schedule handed to the constructor; the scenario of the reconnect
\* contract uses [1, 2]
reconnect_intervals == <<1, 2>>
\* transports ws_connect may open in one run
MaxTransports == 2
\* pings the keep-alive tasks send in one run
MaxPings == 1

NoTransport == 0
NoTask == 0
\* the task of the code that calls connect() and disconnect()
Caller == 1

\* A task: where it is suspended (pc), the call the caller's task is in, the
\* transport it iterates or closes (w), the task it awaits (joins), whether
\* cancel() was called on it, connect()'s local attempt, and how it ended.
\* waits, fails, tried and reconnect are history: the sleeps of the connect()
\* running in the task, the ws_connect calls of it that failed and that were
\* made, and how far handle_reconnect went in the task.  sub is the
\* subscription a _send_sub task sends, it the dictionary iterator of the
\* _on_connect running in the task (both Optional).  hook and again are
\* history of a disconnect() call: whether it invoked on_disconnect, and
\* whether it began on a manager an earlier disconnect() had left
\* disconnected.  pings and ping_failed are history of a _ping_loop: the
\* pings it has sent, and whether a send of it raised.
NewTask(kind) ==
    [kind |-> kind, pc |-> "created", call |-> "none", w |-> NoTransport,
     joins |-> NoTask, cancel |-> FALSE, attempt |-> 0, result |-> "none",
     waits |-> <<>>, fails |-> 0, tried |-> 0, reconnect |-> "none",
     sub |-> <<>>, it |-> <<>>, hook |-> FALSE, again |-> FALSE,
     pings |-> 0, ping_failed |-> FALSE]

\* transport w is one the manager holds and it is up
IsOpen(w) == w # NoTransport /\ transport[w] = "open"

TaskIds == 1..Len(tasks)
Finished(task) == task.pc \in {"done", "raised", "cancelled"}
Runs(t, kind, pc) ==
    /\ tasks[t].kind = kind
    /\ tasks[t].pc = pc
    /\ ~tasks[t].cancel

ConnInit ==
    /\ ws = NoTransport
    /\ is_running = FALSE
    /\ reconnect_attempts = 0
    /\ receive_task = NoTask
    /\ ping_task = NoTask
    /\ tasks = <<[NewTask("user") EXCEPT !.pc = "idle"]>>
    /\ transport = <<>>
    /\ subs_sent = {}

\* Task.cancel(): a finished task is left as it is
cancel(ts, t) ==
    IF t = NoTask \/ Finished(ts[t]) THEN ts ELSE [ts EXCEPT ![t].cancel = TRUE]

\* a _stop_ping that forgets the task without cancelling it
stop_ping_forget(ts) == ts

\* the tasks after _stop_ping(); the caller also sets ping_task' = NoTask
stop_ping(ts) == cancel(ts, ping_task)

\* connect() or disconnect() returns or raises in task t: the caller's task
\* is idle again, a receive task ends
Returned(ts, t, res) ==
    IF ts[t].kind = "user"
    THEN [ts EXCEPT ![t].pc = "idle", ![t].result = res]
    ELSE [ts EXCEPT ![t].pc = IF res = "ok" THEN "done" ELSE "raised",
                    ![t].result = res]

\* the except branch of connect()
connect_failed(ts, t) ==
    LET attempt == ts[t].attempt + 1
        ts1 == [ts EXCEPT ![t].attempt = attempt]
    IN  IF attempt >= Len(reconnect_intervals)
        THEN Returned(ts1, t, "ConnectionError")
        ELSE [ts1 EXCEPT ![t].waits = Append(@, reconnect_intervals[attempt]),
                         ![t].pc = "c_sleeping"]

\* connect() up to its first await
connect(ts, t) ==
    IF is_running /\ ws # NoTransport
    THEN Returned(ts, t, "ok")
    ELSE IF 0 < Len(reconnect_intervals)
         THEN [ts EXCEPT ![t].attempt = 0, ![t].pc = "c_connecting",
                         ![t].tried = @ + 1]
         ELSE Returned(ts, t, "ConnectionError")

\* the caller calls connect()
Connect ==
    /\ tasks[Caller].pc = "idle"
    /\ tasks' = connect([tasks EXCEPT ![Caller] =
                             [NewTask("user") EXCEPT !.call = "connect"]], Caller)
    /\ UNCHANGED <<storeVars, histVars, clientVars>>
    /\ UNCHANGED <<ws, is_running, reconnect_attempts, receive_task, ping_task,
                   transport, subs_sent>>

\* ws_connect returns a transport in task t: the manager's fields when
\* connect() reaches its hook
opened(t) ==
    /\ tasks[t].pc = "c_connecting"
    /\ ~tasks[t].cancel
    /\ Len(transport) < MaxTransports
    /\ transport' = Append(transport, "open")
    /\ ws' = Len(transport) + 1
    /\ is_running' = TRUE
    /\ reconnect_attempts' = 0
    /\ receive_task' = Len(tasks) + 1
    /\ ping_task' = Len(tasks) + 2

\* the tasks then: the receive task and the ping task are created
opened_tasks == stop_ping(tasks) \o <<NewTask("recv"), NewTask("ping")>>

\* ws_connect returns a transport: connect() up to the await of the hook
ConnectOpened(t) ==
    /\ opened(t)
    /\ tasks' = [opened_tasks EXCEPT ![t].pc = "c_on_connect"]
    /\ UNCHANGED <<storeVars, histVars, clientVars>>
    /\ UNCHANGED subs_sent

\* ws_connect raises
ConnectFailed(t) ==
    /\ tasks[t].pc = "c_connecting"
    /\ ~tasks[t].cancel
    /\ tasks' = connect_failed([tasks EXCEPT ![t].fails = @ + 1], t)
    /\ UNCHANGED <<storeVars, histVars, clientVars>>
    /\ UNCHANGED <<ws, is_running, reconnect_attempts, receive_task, ping_task,
                   transport, subs_sent>>

\* HyperStackClient._on_connect: the subscriptions go out on the transport the
\* manager holds, if it holds one and is running
on_connect_sent ==
    IF ws # NoTransport /\ is_running /\ transport[ws] = "open"
    THEN subs_sent \cup {ws}
    ELSE subs_sent

\* the on_connect hook returns, and connect() with it
OnConnectDone(t) ==
    /\ tasks[t].pc = "c_on_connect"
    /\ ~tasks[t].cancel
    /\ subs_sent' = on_connect_sent
    /\ tasks' = Returned(tasks, t, "ok")
    /\ UNCHANGED <<storeVars, histVars, clientVars>>
    /\ UNCHANGED <<ws, is_running, reconnect_attempts, receive_task, ping_task,
                   transport>>

\* the caller-supplied part of the hook raises: connect() takes its except
\* branch
OnConnectFailed(t) ==
    /\ tasks[t].pc = "c_on_connect"
    /\ ~tasks[t].cancel
    /\ subs_sent' = on_connect_sent
    /\ tasks' = connect_failed(tasks, t)
    /\ UNCHANGED <<storeVars, histVars, clientVars>>
    /\ UNCHANGED <<ws, is_running, reconnect_attempts, receive_task, ping_task,
                   transport>>

\* the sleep between two attempts is over: the loop calls ws_connect again
ConnectWake(t) ==
    /\ tasks[t].pc = "c_sleeping"
    /\ ~tasks[t].cancel
    /\ tasks' = [tasks EXCEPT ![t].pc = "c_connecting", ![t].tried = @ + 1]
    /\ UNCHANGED <<storeVars, histVars, clientVars>>
    /\ UNCHANGED <<ws, is_running, reconnect_attempts, receive_task, ping_task,
                   transport, subs_sent>>

\* a task cancel() was called on gets CancelledError at its await, which no
\* handler of receive_messages, connect or _ping_loop catches
TaskCancelled(t) ==
    /\ tasks[t].cancel
    /\ ~Finished(tasks[t])
    /\ tasks' = [tasks EXCEPT ![t].pc = "cancelled"]
    /\ UNCHANGED <<storeVars, histVars, clientVars>>
    /\ UNCHANGED <<ws, is_running, reconnect_attempts, receive_task, ping_task,
                   transport, subs_sent>>

\* receive_messages starts: it iterates the transport the manager holds
ReceiveStart(t) ==
    /\ Runs(t, "recv", "created")
    /\ tasks' = IF ws = NoTransport
                THEN [tasks EXCEPT ![t].pc = "done"]
                ELSE [tasks EXCEPT ![t].pc = "iter", ![t].w = ws]
    /\ UNCHANGED <<storeVars, histVars, clientVars>>
    /\ UNCHANGED <<ws, is_running, reconnect_attempts, receive_task, ping_task,
                   transport, subs_sent>>

\* the iteration raises WebSocketException: receive_messages up to the sleep
\* of handle_reconnect
ReceiveFailed(t) ==
    /\ Runs(t, "recv", "iter")
    /\ transport[tasks[t].w] = "failed"
    /\ ping_task' = NoTask
    /\ LET ts1 == stop_ping(tasks)
           attempts == reconnect_attempts + 1
       IN  IF is_running
           THEN /\ reconnect_attempts' = attempts
                /\ tasks' = IF attempts > Len(reconnect_intervals)
                            THEN [ts1 EXCEPT ![t].pc = "done",
                                             ![t].reconnect = "gave_up"]
                            ELSE [ts1 EXCEPT ![t].pc = "rc_sleeping",
                                             ![t].reconnect = "waiting"]
           ELSE /\ tasks' = [ts1 EXCEPT ![t].pc = "done"]
                /\ UNCHANGED reconnect_attempts
    /\ UNCHANGED <<storeVars, histVars, clientVars>>
    /\ UNCHANGED <<ws, is_running, receive_task, transport, subs_sent>>

\* the iteration ends because the transport was closed
ReceiveEnded(t) ==
    /\ Runs(t, "recv", "iter")
    /\ transport[tasks[t].w] = "closed"
    /\ tasks' = [tasks EXCEPT ![t].pc = "done"]
    /\ UNCHANGED <<storeVars, histVars, clientVars>>
    /\ UNCHANGED <<ws, is_running, reconnect_attempts, receive_task, ping_task,
                   transport, subs_sent>>

\* the sleep of handle_reconnect is over: it calls connect()
ReconnectWake(t) ==
    /\ Runs(t, "recv", "rc_sleeping")
    /\ tasks' = connect([tasks EXCEPT ![t].reconnect = "connect"], t)
    /\ UNCHANGED <<storeVars, histVars, clientVars>>
    /\ UNCHANGED <<ws, is_running, reconnect_attempts, receive_task, ping_task,
                   transport, subs_sent>>

\* _ping_loop starts
PingStart(t) ==
    /\ Runs(t, "ping", "created")
    /\ tasks' = [tasks EXCEPT ![t].pc =
                    IF is_running /\ ws # NoTransport THEN "sleeping" ELSE "done"]
    /\ UNCHANGED <<storeVars, histVars, clientVars>>
    /\ UNCHANGED <<ws, is_running, reconnect_attempts, receive_task, ping_task,
                   transport, subs_sent>>

RECURSIVE PingsSent(_, _)
\* the pings the first n tasks of ts have sent
PingsSent(ts, n) ==
    IF n = 0 THEN 0 ELSE ts[n].pings + PingsSent(ts, n - 1)

\* _ping_loop in task t after its sleep: the ping goes out on the transport
\* the manager holds and the loop sleeps again; a send that raises, or a
\* manager that is not running or holds no transport, ends the loop
ping_loop(ts, t) ==
    IF is_running /\ ws # NoTransport
    THEN IF transport[ws] = "open"
         THEN [ts EXCEPT ![t].pings = @ + 1, ![t].w = ws]
         ELSE [ts EXCEPT ![t].pc = "done", ![t].ping_failed = TRUE, ![t].w = ws]
    ELSE [ts EXCEPT ![t].pc = "done"]

\* the sleep of _ping_loop is over
PingSend(t) ==
    /\ Runs(t, "ping", "sleeping")
    /\ IsOpen(ws) /\ is_running => PingsSent(tasks, Len(tasks)) < MaxPings
    /\ tasks' = ping_loop(tasks, t)
    /\ UNCHANGED <<storeVars, histVars, clientVars>>
    /\ UNCHANGED <<ws, is_running, reconnect_attempts, receive_task, ping_task,
                   transport, subs_sent>>

\* the manager as a disconnect() that returned leaves it
Disconnected ==
    /\ ~is_running
    /\ ws = NoTransport
    /\ ping_task = NoTask
    /\ receive_task # NoTask => Finished(tasks[receive_task])

\* disconnect() invokes the on_disconnect hook and returns
disconnect_hook(ts) == Returned([ts EXCEPT ![Caller].hook = TRUE], Caller, "ok")

\* disconnect() from the await of the receive task on
disconnect_close(ts) ==
    IF ws # NoTransport
    THEN [ts EXCEPT ![Caller].pc = "d_closing", ![Caller].w = ws]
    ELSE disconnect_hook(ts)

\* the caller calls disconnect()
Disconnect ==
    /\ tasks[Caller].pc = "idle"
    /\ is_running' = FALSE
    /\ ping_task' = NoTask
    /\ LET ts1 == [tasks EXCEPT ![Caller] =
                       [NewTask("user") EXCEPT
                            !.call = "disconnect",
                            !.again = /\ tasks[Caller].call = "disconnect"
                                      /\ tasks[Caller].result = "ok"
                                      /\ Disconnected]]
           ts2 == cancel(stop_ping(ts1), receive_task)
       IN  tasks' = IF receive_task # NoTask
                    THEN [ts2 EXCEPT ![Caller].pc = "d_await",
                                     ![Caller].joins = receive_task]
                    ELSE disconnect_close(ts2)
    /\ UNCHANGED <<storeVars, histVars, clientVars>>
    /\ UNCHANGED <<ws, reconnect_attempts, receive_task, transport, subs_sent>>

\* the awaited receive task has finished: its exception, unless it is
\* CancelledError, leaves disconnect()
DisconnectJoined ==
    /\ tasks[Caller].pc = "d_await"
    /\ Finished(tasks[tasks[Caller].joins])
    /\ tasks' = IF tasks[tasks[Caller].joins].pc = "raised"
                THEN Returned(tasks, Caller, "ConnectionError")
                ELSE disconnect_close(tasks)
    /\ UNCHANGED <<storeVars, histVars, clientVars>>
    /\ UNCHANGED <<ws, is_running, reconnect_attempts, receive_task, ping_task,
                   transport, subs_sent>>

\* a disconnect() that empties the store
DisconnectClosedClears ==
    /\ tasks[Caller].pc = "d_closing"
    /\ transport' = [transport EXCEPT ![tasks[Caller].w] =
                         IF @ = "open" THEN "closed" ELSE @]
    /\ ws' = NoTransport
    /\ tasks' = disconnect_hook(tasks)
    /\ data' = <<>> /\ sorted_keys' = <<>> /\ key_to_sort_key' = EmptyFcn
    /\ UNCHANGED <<mode, max_entries, sort_config, last_updates, callbacks,
                   listener_calls, streamVars>>
    /\ UNCHANGED <<histVars, clientVars>>
    /\ UNCHANGED <<is_running, reconnect_attempts, receive_task, ping_task,
                   subs_sent>>

\* ws.close() returns
DisconnectClosed ==
    /\ tasks[Caller].pc = "d_closing"
    /\ transport' = [transport EXCEPT ![tasks[Caller].w] =
                         IF @ = "open" THEN "closed" ELSE @]
    /\ ws' = NoTransport
    /\ tasks' = disconnect_hook(tasks)
    /\ UNCHANGED <<storeVars, histVars, clientVars>>
    /\ UNCHANGED <<is_running, reconnect_attempts, receive_task, ping_task,
                   subs_sent>>

\* the network drops an open transport
TransportFailed(w) ==
    /\ transport[w] = "open"
    /\ transport' = [transport EXCEPT ![w] = "failed"]
    /\ UNCHANGED <<storeVars, histVars, clientVars>>
    /\ UNCHANGED <<ws, is_running, reconnect_attempts, receive_task, ping_task,
                   tasks, subs_sent>>

\* the server closes an open transport
TransportClosed(w) ==
    /\ transport[w] = "open"
    /\ transport' = [transport EXCEPT ![w] = "closed"]
    /\ UNCHANGED <<storeVars, histVars, clientVars>>
    /\ UNCHANGED <<ws, is_running, reconnect_attempts, receive_task, ping_task,
                   tasks, subs_sent>>

-----------------------------------------------------------------------------
(* store.py: the critical section of apply_upsert, apply_patch and
   apply_delete (async with self._lock), with several tasks calling them.
   asyncio.Lock: acquire() returns at once when the lock is free and nobody
   waits, else the task waits in line; release() frees the lock and wakes
   the first in line.  Inside the section the only await is that of
   _notify_update; the model lets the other tasks run there. *)

Workers == {1, 2}
NoWorker == 0
Idle == [pc |-> "idle"]

LockInit ==
    /\ lock = NoWorker
    /\ waiters = <<>>
    /\ workers = [w \in Workers |-> Idle]

\* a lock that is taken whoever holds it
acquire_always == TRUE

\* Lock.acquire returns without waiting
acquire_free == lock = NoWorker /\ waiters = <<>>

\* the section of call c up to its await: the store it leaves and the Update
\* it goes on to notify (Optional)
locked_body(c) ==
    CASE c.op = "apply_upsert" ->
           [st |-> IF IsKeyed
                   THEN store_keyed(c.key, parse_data(c.value), c.value)
                   ELSE [StoreState EXCEPT !.data = Append(@, parse_data(c.value))],
            update |-> Some([key |-> c.key, data |-> parse_data(c.value)])]
      [] c.op = "apply_patch" ->
           IF IsKeyed
           THEN LET merged == patch_merged(c.key, c.value, <<>>)
                IN  [st |-> store_keyed(c.key, parse_data(merged), merged),
                     update |-> Some([key |-> c.key, data |-> parse_data(merged)])]
           ELSE [st |-> [StoreState EXCEPT !.data = Append(@, parse_data(c.value))],
                 update |-> Some([key |-> c.key, data |-> parse_data(c.value)])]
      [] c.op = "apply_delete" ->
           IF IsKeyed /\ DictHas(data, c.key)
           THEN [st |-> [remove_sorted(StoreState, c.key) EXCEPT
                            !.data = DictRemove(@, c.key)],
                 update |-> Some([key |-> c.key, data |-> Null])]
           ELSE [st |-> StoreState, update |-> None]

\* worker w holds the lock and runs the section of c up to its await, or to
\* its end when it notifies nothing
enter(w, c) ==
    LET body == locked_body(c)
    IN  /\ SetStore(body.st)
        /\ no_update
        /\ UNCHANGED <<mode, max_entries, sort_config>>
        /\ IF IsNone(body.update)
           THEN /\ lock' = NoWorker
                /\ workers' = [workers EXCEPT ![w] = Idle]
           ELSE /\ lock' = w
                /\ workers' = [workers EXCEPT ![w] =
                                  [pc |-> "notify", update |-> body.update[1]]]

\* a task calls apply_upsert, apply_patch or apply_delete
LockedCall(w, C) ==
    \E c \in C :
        /\ workers[w].pc = "idle"
        /\ IF acquire_free
           THEN enter(w, c) /\ UNCHANGED waiters
           ELSE /\ waiters' = Append(waiters, w)
                /\ workers' = [workers EXCEPT ![w] = [pc |-> "waiting", call |-> c]]
                /\ UNCHANGED <<storeVars, lock>>
        /\ last_call' = [op |-> c.op]
        /\ UNCHANGED <<write_order, ref, used_keys>>
        /\ UNCHANGED <<connVars, subsVars, recvVars>>

\* the first in line gets the lock
LockedWake(w) ==
    /\ workers[w].pc = "waiting"
    /\ lock = NoWorker
    /\ Head(waiters) = w
    /\ waiters' = Tail(waiters)
    /\ enter(w, workers[w].call)
    /\ last_call' = [op |-> workers[w].call.op]
    /\ UNCHANGED <<write_order, ref, used_keys>>
    /\ UNCHANGED <<connVars, subsVars, recvVars>>

\* _notify_update returns and the section ends: the lock is released
LockedNotify(w) ==
    /\ workers[w].pc = "notify"
    /\ notify_update(workers[w].update.key, workers[w].update.data)
    /\ lock' = IF lock = w THEN NoWorker ELSE lock
    /\ workers' = [workers EXCEPT ![w] = Idle]
    /\ UNCHANGED <<mode, max_entries, sort_config, data, sorted_keys,
                   key_to_sort_key, waiters>>
    /\ last_call' = [op |-> "notify"]
    /\ UNCHANGED <<write_order, ref, used_keys>>
    /\ UNCHANGED <<connVars, subsVars, recvVars>>

-----------------------------------------------------------------------------
(* The inbound messages: WebSocketManager.receive_messages (websocket.py),
   HyperStackClient._on_message (client.py), Frame.from_message (types.py)
   and Store.handle_frame (store.py).  A message is what json.loads makes of
   it: ok says whether it decodes, mode, op and data are the members of the
   object (Optional), key is its "key" member.  A key is a string, written
   1, 2, 3 in the model, or the number NumKey. *)

\* messages the transports deliver in one run
MaxMessages == 2

NumKey == 0
IsStrKey(k) == k # NumKey

Message(op, key, d) ==
    [ok |-> TRUE, mode |-> Some("list"), op |-> op, key |-> key, data |-> d]
Undecodable ==
    [ok |-> FALSE, mode |-> None, op |-> None, key |-> 1, data |-> None]

RecvInit ==
    /\ inbox = [w \in 1..MaxTransports |-> <<>>]
    /\ delivered = [w \in 1..MaxTransports |-> <<>>]
    /\ handled = <<>>
    /\ routed = <<>>

\* Frame.from_message (Optional: None when it raises): json.loads fails, or
\* parsed["mode"] or parsed["op"] is missing; key and data have defaults
from_message(msg) ==
    IF ~msg.ok \/ IsNone(msg.mode) \/ IsNone(msg.op) THEN None
    ELSE Some([mode |-> msg.mode[1], entity |-> "Widget", op |-> msg.op[1],
               key |-> msg.key,
               data |-> IF IsNone(msg.data) THEN EmptyObj ELSE msg.data[1],
               append |-> <<>>])

\* Python's < on two sort keys raises TypeError when it comes to compare a
\* string key with a number key
CompareRaises(a, b) ==
    /\ a[1] = b[1] /\ a[2] = b[2]
    /\ a[3] # b[3]
    /\ IsStrKey(a[3]) # IsStrKey(b[3])

RECURSIVE bisect_left_raises(_, _, _, _)
\* whether bisect_left(a, x) raises on its way
bisect_left_raises(a, x, lo, hi) ==
    IF lo < hi
    THEN LET mid == (lo + hi) \div 2
         IN  \/ CompareRaises(a[mid + 1], x)
             \/ IF SortKeyLess(a[mid + 1], x)
                THEN bisect_left_raises(a, x, mid + 1, hi)
                ELSE bisect_left_raises(a, x, lo, mid)
    ELSE FALSE

RECURSIVE bisect_right_raises(_, _, _, _)
\* whether bisect_right(a, x), and so insort(a, x), raises on its way
bisect_right_raises(a, x, lo, hi) ==
    IF lo < hi
    THEN LET mid == (lo + hi) \div 2
         IN  \/ CompareRaises(x, a[mid + 1])
             \/ IF SortKeyLess(x, a[mid + 1])
                THEN bisect_right_raises(a, x, lo, mid)
                ELSE bisect_right_raises(a, x, mid + 1, hi)
    ELSE FALSE

\* the keyed branch of apply_upsert and apply_patch up to the exception of
\* _insert_sorted, if it raises one: the store as the exception leaves it
keyed_raise(key, parsed_data, raw) ==
    LET stored == [StoreState EXCEPT !.data = DictSet(@, key, parsed_data)]
    IN  IF IsNone(sort_config) THEN None
        ELSE LET has == key \in DOMAIN key_to_sort_key
                 removed == IF has
                            THEN RemoveSortKey(sorted_keys, key_to_sort_key[key])
                            ELSE sorted_keys
                 sort_key == entry_sort_key(sort_config[1], key, raw)
             IN  IF has /\ bisect_left_raises(sorted_keys, key_to_sort_key[key],
                                              0, Len(sorted_keys))
                 THEN Some(stored)
                 ELSE IF bisect_right_raises(removed, sort_key, 0, Len(removed))
                 THEN Some([stored EXCEPT
                              !.sorted_keys = removed,
                              !.key_to_sort_key = FcnSet(@, key, sort_key)])
                 ELSE None

\* apply_delete up to the exception of _remove_sorted, if it raises one
delete_raise(key) ==
    IF /\ IsKeyed /\ DictHas(data, key)
       /\ ~IsNone(sort_config) /\ key \in DOMAIN key_to_sort_key
       /\ bisect_left_raises(sorted_keys, key_to_sort_key[key], 0, Len(sorted_keys))
    THEN Some([StoreState EXCEPT !.key_to_sort_key = FcnRemove(@, key)])
    ELSE None

\* the store is left as st by a call that raised: nothing is queued
raised_with(st) ==
    /\ SetStore(st)
    /\ no_update
    /\ UNCHANGED <<mode, max_entries, sort_config>>

\* Store.handle_frame; res is "applied", or "failed" when the call raises
handle_frame(frame, res) ==
    LET op == IF frame.op \in {"patch", "delete"} THEN frame.op ELSE "upsert"
        current == IF IsKeyed /\ DictHas(data, frame.key)
                   THEN DictVal(data, frame.key)
                   ELSE EmptyObj
    IN  CASE op = "upsert" ->
               LET exc == IF IsKeyed
                          THEN keyed_raise(frame.key, parse_data(frame.data), frame.data)
                          ELSE None
               IN  IF IsNone(exc)
                   THEN res = "applied" /\ apply_upsert(frame.key, frame.data)
                   ELSE res = "failed" /\ raised_with(exc[1])
          [] op = "patch" ->
               IF IsKeyed /\ IsDict(current) /\ ~IsDict(frame.data)
               THEN res = "failed" /\ raised_with(StoreState)
               ELSE LET merged == patch_merged(frame.key, frame.data, frame.append)
                        exc == IF IsKeyed
                               THEN keyed_raise(frame.key, parse_data(merged), merged)
                               ELSE None
                    IN  IF IsNone(exc)
                        THEN /\ res = "applied"
                             /\ apply_patch(frame.key, frame.data, frame.append)
                        ELSE res = "failed" /\ raised_with(exc[1])
          [] op = "delete" ->
               LET exc == delete_raise(frame.key)
               IN  IF IsNone(exc)
                   THEN res = "applied" /\ apply_delete(frame.key)
                   ELSE res = "failed" /\ raised_with(exc[1])

\* the registry's apply_frame: the frame goes to the store of its view
apply_frame(frame, res) == handle_frame(frame, res)

\* _on_message that does not hand patch frames on
on_message_lossy(msg, res) ==
    LET frame == from_message(msg)
    IN  IF IsNone(frame) \/ frame[1].op = "patch"
        THEN /\ res = "dropped"
             /\ raised_with(StoreState)
             /\ UNCHANGED routed
        ELSE /\ apply_frame(frame[1], res)
             /\ routed' = Append(routed, frame[1])

\* HyperStackClient._on_message: every exception is caught and logged
on_message(msg, res) ==
    LET frame == from_message(msg)
    IN  IF IsNone(frame)
        THEN /\ res = "dropped"
             /\ raised_with(StoreState)
             /\ UNCHANGED routed
        ELSE /\ apply_frame(frame[1], res)
             /\ routed' = Append(routed, frame[1])

\* the message the iteration of the transport yields next
next_message(q) == Head(q)
\* the messages left to it after that
rest_messages(q) == Tail(q)

\* the async for of receive_messages yields a message and awaits the handler
ReceiveMessage(t) ==
    /\ Runs(t, "recv", "iter")
    /\ inbox[tasks[t].w] # <<>>
    /\ LET w == tasks[t].w
           msg == next_message(inbox[w])
       IN  /\ inbox' = [inbox EXCEPT ![w] = rest_messages(@)]
           /\ \E res \in {"applied", "failed", "dropped"} :
                  /\ on_message(msg, res)
                  /\ handled' = Append(handled, [w |-> w, msg |-> msg, res |-> res])
    /\ UNCHANGED <<connVars, subsVars, lockVars, histVars, delivered>>

RECURSIVE DeliveredUpTo(_)
\* the number of messages transports 1..w have delivered
DeliveredUpTo(w) == IF w = 0 THEN 0 ELSE Len(delivered[w]) + DeliveredUpTo(w - 1)

\* an open transport delivers a message, one of at most limit
Deliver(M, limit) ==
    \E w \in 1..Len(transport), msg \in M :
        /\ transport[w] = "open"
        /\ DeliveredUpTo(MaxTransports) < limit
        /\ inbox' = [inbox EXCEPT ![w] = Append(@, msg)]
        /\ delivered' = [delivered EXCEPT ![w] = Append(@, msg)]
        /\ UNCHANGED <<storeVars, connVars, subsVars, lockVars, histVars, handled,
                       routed>>

-----------------------------------------------------------------------------
(* HyperStackClient (client.py): the subscriptions.  A view string is the
   sequence of its parts, "Widget/list" being <<"Widget", "/", "list">>. *)

\* subscribe() and unsubscribe() calls of one run
MaxCalls == 2

Subscription(view, key) == [view |-> view, key |-> key]

\* Subscription.sub_key and Unsubscription.sub_key: f"{view}:{key or '*'}"
sub_key(sub) ==
    sub.view \o <<":">> \o
        <<IF IsNone(sub.key) \/ sub.key[1] = "" THEN "*" ELSE sub.key[1]>>

\* Subscription.to_dict and Unsubscription.to_dict: no "key" member for key None
to_dict(type, sub) == [type |-> type, view |-> sub.view, key |-> sub.key]

\* "/" in view
HasSeparator(view) == \E i \in 1..Len(view) : view[i] = "/"

EndsWith(view, suffix) ==
    /\ Len(view) >= Len(suffix)
    /\ SubSeq(view, Len(view) - Len(suffix) + 1, Len(view)) = suffix

parse_mode(view) ==
    IF EndsWith(view, <<"/", "state">>) THEN "state"
    ELSE IF EndsWith(view, <<"/", "list">>) THEN "list"
    ELSE IF EndsWith(view, <<"/", "append">>) THEN "append"
    ELSE "list"

\* _active_subs is a dict: a table of entries in insertion order in which a
\* removed entry leaves a hole, as the iteration of _on_connect sees it
Removed == [live |-> FALSE, sk |-> <<>>, sub |-> Subscription(<<>>, None)]
Entry(sub) == [live |-> TRUE, sk |-> sub_key(sub), sub |-> sub]
SubLive(tbl) == SelectSeq(tbl, LAMBDA e : e.live)
SubLen(tbl) == Len(SubLive(tbl))
SubHas(tbl, sk) == \E i \in 1..Len(tbl) : tbl[i].live /\ tbl[i].sk = sk
SubKeys(tbl) == {tbl[i].sk : i \in {j \in 1..Len(tbl) : tbl[j].live}}
\* dict.pop(sub_key, None)
SubPop(tbl, sk) ==
    [i \in 1..Len(tbl) |-> IF tbl[i].live /\ tbl[i].sk = sk THEN Removed ELSE tbl[i]]

ClientInit ==
    /\ active_subs = <<>>
    /\ pending_subs = <<>>
    /\ stores = <<>>
    /\ wire = {}
    /\ sub_call = [op |-> "none", n |-> 0]
    /\ subscribed = {}
    /\ RecvInit
    /\ LockInit

\* the store registry's get_store: one store per view, created at first
\* access; the store is known by its place in the registry
get_store(view) ==
    IF \E i \in 1..Len(stores) : stores[i].view = view
    THEN stores
    ELSE Append(stores, [view |-> view, mode |-> parse_mode(view)])

store_of(reg, view) == CHOOSE i \in 1..Len(reg) : reg[i].view = view

\* a request written to the transport the manager holds; the write fails,
\* and is logged, on a transport that is no longer open
written(w, is_open, msg) ==
    IF is_open THEN wire \cup {[w |-> w, msg |-> msg]} ELSE wire

\* subscribe() without the test for an active subscription of the same key
subscribe_always(view, key) ==
    IF ~HasSeparator(view)
    THEN /\ sub_call' = [op |-> "subscribe", view |-> view, key |-> key,
                         result |-> "ValueError", recorded |-> FALSE,
                         n |-> sub_call.n + 1]
         /\ UNCHANGED <<active_subs, pending_subs, stores, tasks, subscribed>>
    ELSE LET sub == Subscription(view, key)
             absent == ~SubHas(active_subs, sub_key(sub))
         IN  /\ stores' = get_store(view)
             /\ active_subs' = Append(active_subs, Entry(sub))
             /\ IF is_running
                THEN /\ tasks' = Append(tasks,
                            [NewTask("send") EXCEPT !.sub = <<sub>>])
                     /\ UNCHANGED pending_subs
                ELSE /\ pending_subs' = Append(pending_subs, sub)
                     /\ UNCHANGED tasks
             /\ subscribed' = subscribed \cup {sub}
             /\ sub_call' = [op |-> "subscribe", view |-> view, key |-> key,
                             result |-> store_of(stores', view),
                             recorded |-> absent, n |-> sub_call.n + 1]

\* HyperStackClient.subscribe; recorded is history: whether the call added
\* the subscription to _active_subs
subscribe(view, key) ==
    IF ~HasSeparator(view)
    THEN /\ sub_call' = [op |-> "subscribe", view |-> view, key |-> key,
                         result |-> "ValueError", recorded |-> FALSE,
                         n |-> sub_call.n + 1]
         /\ UNCHANGED <<active_subs, pending_subs, stores, tasks, subscribed>>
    ELSE LET sub == Subscription(view, key)
             absent == ~SubHas(active_subs, sub_key(sub))
         IN  /\ stores' = get_store(view)
             /\ IF absent
                THEN /\ active_subs' = Append(active_subs, Entry(sub))
                     /\ IF is_running
                        THEN /\ tasks' = Append(tasks,
                                    [NewTask("send") EXCEPT !.sub = <<sub>>])
                             /\ UNCHANGED pending_subs
                        ELSE /\ pending_subs' = Append(pending_subs, sub)
                             /\ UNCHANGED tasks
                ELSE UNCHANGED <<active_subs, pending_subs, tasks>>
             /\ subscribed' = subscribed \cup {sub}
             /\ sub_call' = [op |-> "subscribe", view |-> view, key |-> key,
                             result |-> store_of(stores', view),
                             recorded |-> absent, n |-> sub_call.n + 1]

\* HyperStackClient.unsubscribe
unsubscribe(view, key) ==
    LET sk == sub_key(Subscription(view, key))
    IN  /\ active_subs' = SubPop(active_subs, sk)
        /\ pending_subs' = SelectSeq(pending_subs, LAMBDA s : sub_key(s) # sk)
        /\ wire' = IF ws = NoTransport \/ ~is_running
                   THEN wire
                   ELSE written(ws, IsOpen(ws),
                                to_dict("unsubscribe", Subscription(view, key)))
        /\ sub_call' = [op |-> "unsubscribe", view |-> view, key |-> key,
                        result |-> "ok", n |-> sub_call.n + 1]

\* the iterator of _active_subs.values(): the place in the table, the size
\* of the dict when it was made and the values it still expects; w and set
\* are history: the transport the manager held and the keys that were
\* active when _on_connect began
NewIter(w) ==
    [pos |-> 1, used |-> SubLen(active_subs), len |-> SubLen(active_subs),
     w |-> w, set |-> SubKeys(active_subs)]

\* the first live entry of the table at or after place i, 0 if there is none
NextLive(tbl, i) ==
    LET later == {j \in i..Len(tbl) : tbl[j].live}
    IN  IF later = {} THEN 0 ELSE CHOOSE j \in later : \A k \in later : j <= k

RECURSIVE flush_run(_, _, _)
\* the for loop of _on_connect from iterator it on, up to the next write to
\* the transport: _send_sub returns at once when the manager holds no
\* transport or is not running
flush_run(tbl, it, connected) ==
    IF it.used # SubLen(tbl)
    THEN [end |-> "raise", it |-> it, sub |-> <<>>]
    ELSE LET i == NextLive(tbl, it.pos)
         IN  IF i = 0 THEN [end |-> "done", it |-> it, sub |-> <<>>]
             ELSE IF it.len = 0 THEN [end |-> "raise", it |-> it, sub |-> <<>>]
             ELSE LET it1 == [it EXCEPT !.pos = i + 1, !.len = @ - 1]
                  IN  IF connected
                      THEN [end |-> "sent", it |-> it1, sub |-> <<tbl[i].sub>>]
                      ELSE flush_run(tbl, it1, connected)

\* _on_connect in task t, from its start or from the await of a write, up to
\* its next await or its end, the manager holding transport w
on_connect(ts, t, it, w, running, is_open) ==
    LET run == flush_run(active_subs, it, w # NoTransport /\ running)
        ts1 == [ts EXCEPT ![t].it = <<>>]
    IN  /\ wire' = IF run.end = "sent"
                   THEN written(w, is_open, to_dict("subscribe", run.sub[1]))
                   ELSE wire
        /\ pending_subs' = IF run.end = "done" THEN <<>> ELSE pending_subs
        /\ tasks' = IF run.end = "sent"
                    THEN [ts EXCEPT ![t].pc = "c_on_connect", ![t].it = <<run.it>>]
                    ELSE IF run.end = "done" THEN Returned(ts1, t, "ok")
                    ELSE connect_failed(ts1, t)

\* ws_connect returns a transport: connect() up to the first await of
\* _on_connect, or to its end
ClientOpened(t) ==
    /\ opened(t)
    /\ on_connect([opened_tasks EXCEPT ![t].pc = "c_on_connect"], t,
                  NewIter(Len(transport) + 1), Len(transport) + 1, TRUE, TRUE)
    /\ UNCHANGED <<storeVars, histVars>>
    /\ UNCHANGED <<subs_sent, active_subs, stores, sub_call, subscribed, recvVars, lockVars>>

\* the write of _on_connect returns: the loop goes on
OnConnectResume(t) ==
    /\ tasks[t].pc = "c_on_connect"
    /\ ~tasks[t].cancel
    /\ tasks[t].it # <<>>
    /\ on_connect(tasks, t, tasks[t].it[1], ws, is_running, IsOpen(ws))
    /\ UNCHANGED <<storeVars, histVars>>
    /\ UNCHANGED <<ws, is_running, reconnect_attempts, receive_task, ping_task,
                   transport, subs_sent, active_subs, stores, sub_call,
                   subscribed, recvVars, lockVars>>

\* the task subscribe() created runs _send_sub
SendSub(t) ==
    /\ Runs(t, "send", "created")
    /\ wire' = IF ws = NoTransport \/ ~is_running
               THEN wire
               ELSE written(ws, IsOpen(ws), to_dict("subscribe", tasks[t].sub[1]))
    /\ tasks' = [tasks EXCEPT ![t].pc = "done"]
    /\ UNCHANGED <<storeVars, histVars>>
    /\ UNCHANGED <<ws, is_running, reconnect_attempts, receive_task, ping_task,
                   transport, subs_sent, active_subs, pending_subs, stores,
                   sub_call, subscribed, recvVars, lockVars>>

\* the application calls subscribe()
Subscribe(Args) ==
    \E a \in Args :
        /\ sub_call.n < MaxCalls
        /\ subscribe(a.view, a.key)
        /\ UNCHANGED <<storeVars, histVars>>
        /\ UNCHANGED <<ws, is_running, reconnect_attempts, receive_task,
                       ping_task, transport, subs_sent, wire, recvVars,
                       lockVars>>

\* the application calls unsubscribe()
Unsubscribe(Args) ==
    \E a \in Args :
        /\ sub_call.n < MaxCalls
        /\ unsubscribe(a.view, a.key)
        /\ UNCHANGED <<storeVars, histVars>>
        /\ UNCHANGED <<ws, is_running, reconnect_attempts, receive_task,
                       ping_task, transport, subs_sent, tasks, stores,
                       subscribed, recvVars, lockVars>>

-----------------------------------------------------------------------------
(* The store under sorting and eviction: specification Spec *)

Keys == {1, 2, 3}
\* a "state" store is keyed exactly as a "list" store is (store.py 91); it is
\* the store of SpecMerge
Modes == {"list", "append"}
SortConfigs == {[field |-> <<"n">>, order |-> "asc"],
                [field |-> <<"n">>, order |-> "desc"]}
Capacities == {Some(n) : n \in 1..MaxCap}

SortFieldValues == {Bool(TRUE), Num(1), Num(2), Str("x")}
SortDocs == {EmptyObj} \cup {Obj1("n", x) : x \in SortFieldValues}
UpsertValues == SortDocs
\* an upsert may carry a value that is no object, or one whose sort field is
\* neither a boolean, a number nor a string; such values are written under the
\* first key only
OtherValues == {Num(7), Obj1("n", Arr(<<1>>))}
SortPatches == {EmptyObj, Obj1("n", Num(1)), Obj1("n", Str("x"))}

Init ==
    /\ mode \in Modes
    /\ max_entries \in Capacities
    /\ sort_config \in {None} \cup {Some(c) : c \in SortConfigs}
    /\ StoreInit
    /\ HistInit
    /\ ConnInit
    /\ ClientInit

Next ==
    \/ Upsert(Keys, UpsertValues, FALSE)
    \/ Upsert({1}, OtherValues, FALSE)
    \/ Patch(Keys, SortPatches, {<<>>}, FALSE)
    \/ Delete(Keys, FALSE)
    \/ Get(Keys)
    \/ Read
    \/ SetSortConfig(SortConfigs)

Spec == Init /\ [][Next]_vars

-----------------------------------------------------------------------------
(* The sorted store over the kinds of sort value: specification SpecSort.
   Every entry is an object whose sort field is a boolean, a number or a
   string, two values of each kind; two keys carry the booleans and the
   numbers, two keys the strings. *)

ScalarKeys == {1, 2}
ScalarValues == {Obj1("n", x) : x \in {Bool(FALSE), Bool(TRUE), Num(1), Num(2)}}
StringKeys == {3, 4}
StringValues == {Obj1("n", x) : x \in {Str("x"), Str("y")}}

InitSort ==
    /\ mode = "list"
    /\ max_entries = None
    /\ sort_config \in {Some(c) : c \in SortConfigs}
    /\ StoreInit
    /\ HistInit
    /\ ConnInit
    /\ ClientInit

NextSort ==
    \/ Upsert(ScalarKeys, ScalarValues, FALSE)
    \/ Upsert(StringKeys, StringValues, FALSE)

SpecSort == InitSort /\ [][NextSort]_vars

-----------------------------------------------------------------------------
(* The store under merging: specification SpecMerge *)

MergeKeys == {1, 2}
MergeValues == {Obj2("a", Arr(<<1>>), "o", EmptyObj), Num(7)}
MergePatches == {EmptyObj,
                 Obj1("a", Arr(<<2>>)), Obj1("a", Num(5)),
                 Obj1("o", EmptyObj), Obj1("o", Obj1("a", Arr(<<2>>)))}
AppendPaths == {<<>>, <<"a">>, <<"o.a">>}

InitMerge ==
    /\ mode = "state"
    /\ max_entries \in {Some(1), None}
    /\ sort_config = None
    /\ StoreInit
    /\ HistInit
    /\ ConnInit
    /\ ClientInit

NextMerge ==
    \/ Upsert(MergeKeys, MergeValues, TRUE)
    \/ Patch(MergeKeys, MergePatches, AppendPaths, TRUE)
    \/ Delete(MergeKeys, TRUE)
    \/ Get(MergeKeys)

SpecMerge == InitMerge /\ [][NextMerge]_vars


-----------------------------------------------------------------------------
(* The connection manager: specification SpecConn *)

InitConn ==
    /\ mode = "list"
    /\ max_entries = None
    /\ sort_config = None
    /\ StoreInit
    /\ HistInit
    /\ ConnInit
    /\ ClientInit

NextConn ==
    \/ Connect
    \/ \E t \in TaskIds : ConnectOpened(t)
    \/ \E t \in TaskIds : ConnectFailed(t)
    \/ \E t \in TaskIds : OnConnectDone(t)
    \/ \E t \in TaskIds : OnConnectFailed(t)
    \/ \E t \in TaskIds : ConnectWake(t)
    \/ \E t \in TaskIds : TaskCancelled(t)
    \/ \E t \in TaskIds : ReceiveStart(t)
    \/ \E t \in TaskIds : ReceiveFailed(t)
    \/ \E t \in TaskIds : ReceiveEnded(t)
    \/ \E t \in TaskIds : ReconnectWake(t)
    \/ \E t \in TaskIds : PingStart(t)
    \/ \E t \in TaskIds : PingSend(t)
    \/ Disconnect
    \/ DisconnectJoined
    \/ DisconnectClosed
    \/ \E w \in 1..Len(transport) : TransportFailed(w)
    \/ \E w \in 1..Len(transport) : TransportClosed(w)

SpecConn == InitConn /\ [][NextConn]_vars

-----------------------------------------------------------------------------
(* The client's subscriptions over the connection manager: specification
   SpecSubs.  The application connects and disconnects; the receive task and
   the keep-alive task are left where they are created and the transports
   stay up until closed. *)

ListArgs ==
    {Subscription(<<"Widget", "/", "list">>, key) : key \in {None, Some("*"), Some("k")}}
\* subscribe() is also called with a view that has no separator
SubArgs == ListArgs \cup {Subscription(<<"Widget">>, None)}

NextSubs ==
    \/ Subscribe(SubArgs)
    \/ Unsubscribe(ListArgs)
    \/ Connect
    \/ \E t \in TaskIds : ClientOpened(t)
    \/ \E t \in TaskIds : OnConnectResume(t)
    \/ \E t \in TaskIds : ConnectWake(t)
    \/ \E t \in TaskIds : SendSub(t)
    \/ \E t \in TaskIds : TaskCancelled(t)
    \/ Disconnect
    \/ DisconnectJoined
    \/ DisconnectClosed

SpecSubs == InitConn /\ [][NextSubs]_vars

-----------------------------------------------------------------------------
(* The inbound messages over the connection manager: specification SpecRecv.
   The store is the sorted list store of the view the frames belong to; the
   transports stay up until the application disconnects. *)

Messages ==
    {Message(Some("upsert"), 1, Some(EmptyObj)),
     Message(Some("upsert"), NumKey, Some(EmptyObj)),
     Message(Some("patch"), 1, Some(Num(7))),
     Message(None, 1, None),
     Undecodable}

InitRecv ==
    /\ mode = "list"
    /\ max_entries = Some(MaxCap)
    /\ sort_config = Some([field |-> <<"n">>, order |-> "asc"])
    /\ StoreInit
    /\ HistInit
    /\ ConnInit
    /\ ClientInit

NextRecv ==
    \/ Connect
    \/ \E t \in TaskIds : ConnectOpened(t)
    \/ \E t \in TaskIds : OnConnectDone(t)
    \/ \E t \in TaskIds : TaskCancelled(t)
    \/ \E t \in TaskIds : ReceiveStart(t)
    \/ Deliver(Messages, MaxMessages)
    \/ \E t \in TaskIds : ReceiveMessage(t)
    \/ Disconnect
    \/ DisconnectJoined
    \/ DisconnectClosed

SpecRecv == InitRecv /\ [][NextRecv]_vars

-----------------------------------------------------------------------------
(* The life of the connection over a store that frames fill: specification
   SpecLife.  Transports fail, the receive task reconnects, the application
   connects and disconnects. *)

LifeMessages == {Message(Some("upsert"), 1, Some(Obj1("n", Num(1))))}
\* the failures and reconnects multiply the runs: one message less
MaxLifeMessages == MaxMessages - 1

NextLife ==
    \/ Connect
    \/ \E t \in TaskIds : ConnectOpened(t)
    \/ \E t \in TaskIds : OnConnectDone(t)
    \/ \E t \in TaskIds : TaskCancelled(t)
    \/ \E t \in TaskIds : ReceiveStart(t)
    \/ Deliver(LifeMessages, MaxLifeMessages)
    \/ \E t \in TaskIds : ReceiveMessage(t)
    \/ \E w \in 1..Len(transport) : TransportFailed(w)
    \/ \E t \in TaskIds : ReceiveFailed(t)
    \/ \E t \in TaskIds : ReconnectWake(t)
    \/ Disconnect
    \/ DisconnectJoined
    \/ DisconnectClosed

SpecLife == InitRecv /\ [][NextLife]_vars

-----------------------------------------------------------------------------
(* The keep-alive task over the life of a connection: specification SpecPing.
   Transports fail, the application connects and disconnects; the hook of
   connect() returns, and a receive task that waits to reconnect is left
   waiting. *)

NextPing ==
    \/ Connect
    \/ \E t \in TaskIds : ConnectOpened(t)
    \/ \E t \in TaskIds : OnConnectDone(t)
    \/ \E t \in TaskIds : TaskCancelled(t)
    \/ \E t \in TaskIds : ReceiveStart(t)
    \/ \E t \in TaskIds : ReceiveFailed(t)
    \/ \E t \in TaskIds : PingStart(t)
    \/ \E t \in TaskIds : PingSend(t)
    \/ Disconnect
    \/ DisconnectJoined
    \/ DisconnectClosed
    \/ \E w \in 1..Len(transport) : TransportFailed(w)

SpecPing == InitConn /\ [][NextPing]_vars

-----------------------------------------------------------------------------
(* The update stream of a store: specification SpecStream.  Two tasks iterate
   the store (async for update in store) from its construction on. *)

\* the Updates put on the queue in one run
MaxUpdates == 3

Consumers == {1, 2}
StreamKeys == {1, 2}
StreamValues == {Obj1("n", Num(1)), Obj1("n", Num(2))}

InitStream ==
    /\ mode = "list"
    /\ max_entries \in Capacities
    /\ sort_config \in {None, Some([field |-> <<"n">>, order |-> "asc"])}
    /\ StoreEmpty
    /\ consumers = [c \in Consumers |-> <<>>]
    /\ HistInit
    /\ ConnInit
    /\ ClientInit

StreamOpen == Len(update_log) < MaxUpdates

NextStream ==
    \/ StreamOpen /\ Upsert(StreamKeys, StreamValues, FALSE)
    \/ StreamOpen /\ Delete(StreamKeys, FALSE)
    \/ \E c \in Consumers : StreamNext(c)

SpecStream == InitStream /\ [][NextStream]_vars

-----------------------------------------------------------------------------
(* The store and its listeners: specification SpecListen *)

ListenKeys == {1, 2}
ListenValues == {EmptyObj, Obj1("n", Num(1))}

InitListen ==
    /\ mode = "list"
    /\ max_entries = None
    /\ sort_config = None
    /\ StoreInit
    /\ HistInit
    /\ ConnInit
    /\ ClientInit

NextListen ==
    \/ StoreSubscribe(Listeners)
    \/ StoreUnsubscribe(Listeners)
    \/ Upsert(ListenKeys, ListenValues, FALSE)
    \/ Patch(ListenKeys, ListenValues, {<<>>}, FALSE)
    \/ Delete(ListenKeys, FALSE)

SpecListen == InitListen /\ [][NextListen]_vars

-----------------------------------------------------------------------------
(* Several tasks on one sorted store: specification SpecLock *)

LockKeys == {1, 2, 3}
LockCalls ==
    {[op |-> "apply_upsert", key |-> k, value |-> v] :
         k \in LockKeys, v \in {EmptyObj, Obj1("n", Num(1))}}
    \cup {[op |-> "apply_patch", key |-> 1, value |-> Obj1("n", Num(2))]}
    \cup {[op |-> "apply_delete", key |-> k, value |-> Null] : k \in {1, 2}}

InitLock ==
    /\ mode = "list"
    /\ max_entries = Some(MaxCap)
    /\ sort_config = Some([field |-> <<"n">>, order |-> "asc"])
    /\ StoreInit
    /\ HistInit
    /\ ConnInit
    /\ ClientInit

NextLock ==
    \/ \E w \in Workers : LockedCall(w, LockCalls)
    \/ \E w \in Workers : LockedWake(w)
    \/ \E w \in Workers : LockedNotify(w)
    \/ Get(LockKeys)
    \/ Read

SpecLock == InitLock /\ [][NextLock]_vars

-----------------------------------------------------------------------------
(* Claims about the capacity bound and the ordering (Spec) *)

HasLimit == ~IsNone(max_entries)
Sorted == ~IsNone(sort_config)
\* the latest call was an upsert or a patch of a keyed store
Wrote(call) == call.op \in {"apply_upsert", "apply_patch"}

\* C1: in a store with a configured max_entries, keyed or append, the number
\* of stored entries never exceeds max_entries.
C1_CountWithinBound == HasLimit => Len(data) <= max_entries[1]

\* the sort key of a stored entry, computed from the stored value
StoredSortKey(d, key) == entry_sort_key(sort_config[1], key, DictVal(d, key))

\* the keys of d that are among the n last in sort order
LastInSortOrder(d, n) ==
    {k \in DictKeys(d) :
        Cardinality({j \in DictKeys(d) :
            SortKeyLess(StoredSortKey(d, k), StoredSortKey(d, j))}) < n}

\* the n oldest-written keys, key being written now
OldestWritten(key, n) ==
    LET order == SelectSeq(write_order, LAMBDA k : k # key) \o <<key>>
    IN  {order[i] : i \in 1..n}

\* C2: in a keyed store, when an upsert or patch pushes the count above
\* max_entries, the entries evicted are the tail of the active ordering: the
\* oldest written (by upsert or patch) without a sort configuration, the last
\* in sort order with one; as many as bring the count within the bound.
C2_EvictsTail ==
    [][(IsKeyed /\ HasLimit /\ Wrote(last_call')) =>
        LET key == last_updates'[1].key
            all == DictSet(data, key, last_updates'[1].data)
            over == Len(all) - max_entries[1]
            evicted == DictKeys(all) \ DictKeys(data')
        IN  over > 0 =>
              /\ Len(data') = max_entries[1]
              /\ evicted = IF Sorted THEN LastInSortOrder(all, over)
                           ELSE OldestWritten(key, over)]_vars

\* C6: with a sort configuration, keys_sorted() and list_sorted() list every
\* stored key exactly once, in a strict total order: sort value first, equal
\* sort values by key ascending; a read leaves the order as it is.
C6_TotalOrder ==
    /\ [](IsKeyed /\ Sorted =>
            LET ks == keys_sorted
                n == Len(ks)
            IN  /\ n = Len(data)
                /\ {ks[i] : i \in 1..n} = DictKeys(data)
                /\ \A i, j \in 1..n : i < j =>
                     LET a == StoredSortKey(data, ks[i])
                         b == StoredSortKey(data, ks[j])
                     IN  /\ SortKeyLess(a, b) /\ ~SortKeyLess(b, a)
                         /\ (a[1] = b[1] /\ a[2] = b[2]) => ks[i] < ks[j]
                /\ list_sorted = [i \in 1..n |-> DictVal(data, ks[i])])
    /\ [][(IsKeyed /\ Sorted /\ last_call'.op \in {"get", "read"}) =>
            /\ keys_sorted' = keys_sorted
            /\ list_sorted' = list_sorted]_vars

\* two entries with one sort value are listed, and the list has just been read
C6_Witness ==
    /\ IsKeyed /\ Sorted /\ last_call.op = "read"
    /\ Len(keys_sorted) = 2
    /\ data[1].val = data[2].val
    /\ data[1].key > data[2].key

\* C7: once a store has a sort configuration no step replaces it, and a
\* set_sort_config call leaves the contents and the ordered index unchanged.
C7_SortConfigFixed ==
    [][Sorted =>
        /\ sort_config' = sort_config
        /\ last_call'.op = "set_sort_config" =>
             UNCHANGED <<data, sorted_keys, key_to_sort_key>>]_vars

\* set_sort_config has been called with another configuration than the
\* store's, on a store holding two entries
C7_Witness ==
    /\ last_call.op = "set_sort_config"
    /\ Sorted /\ last_call.config # sort_config[1]
    /\ Len(data) = 2 /\ Len(sorted_keys) = 2

-----------------------------------------------------------------------------
(* Claims about merging (SpecMerge) *)

\* C3: while the keys written stay within the capacity bound, the contents
\* of a keyed store are the fold of the operations applied so far under the
\* reference semantics.
C3_ContentsAreFold == (IsKeyed /\ WithinCapacity(used_keys)) => Contents(data) = ref

\* both keys hold merged values, one with an appended array and a merged
\* nested object
C3_Witness ==
    /\ IsKeyed /\ WithinCapacity(used_keys) /\ Len(data) = 2
    /\ \E i \in 1..2 :
         data[i].val = Obj2("a", Arr(<<1, 2>>), "o", Obj1("a", Arr(<<2, 2>>)))

\* the latest call was apply_patch(key, {}) on a keyed store
PatchedEmpty(call) == IsKeyed /\ call.op = "apply_patch" /\ call.patch = EmptyObj

PatchPaths == {"a", "o.a"}
PathSegments(p) == IF p = "a" THEN <<"a">> ELSE <<"o", "a">>

RECURSIVE ValueAt(_, _)
\* Optional: the value of x at the path
ValueAt(x, segments) ==
    IF segments = <<>> THEN Some(x)
    ELSE IF IsDict(x) /\ Head(segments) \in DOMAIN x.v
         THEN ValueAt(x.v[Head(segments)], Tail(segments))
         ELSE None

IsArrayAt(x, p) ==
    LET at == ValueAt(x, PathSegments(p)) IN ~IsNone(at) /\ IsList(at[1])
ArrayAt(x, p) == ValueAt(x, PathSegments(p))[1].v
IsPrefix(s, t) == Len(s) <= Len(t) /\ SubSeq(t, 1, Len(s)) = s

-----------------------------------------------------------------------------
(* Claims about connecting and reconnecting (SpecConn) *)

\* the connect() the caller made has seen exactly failures transport attempts
\* fail, and nothing else
CallerFailed(failures) ==
    /\ tasks[Caller].call = "connect"
    /\ tasks[Caller].fails = failures
    /\ tasks[Caller].attempt = failures

\* C8: connect() consumes the whole schedule before it gives up: once as many
\* transport attempts have failed as the schedule has durations, connect()
\* has waited every duration of the schedule in order, one after each
\* failure, and has not raised ConnectionError.
C8_ConsumesSchedule ==
    CallerFailed(Len(reconnect_intervals)) =>
        /\ tasks[Caller].waits = reconnect_intervals
        /\ tasks[Caller].result # "ConnectionError"

\* C9: after a receive failure in a running manager, once the wait of the
\* reconnect is over the receive task has made a new transport connection
\* attempt.
C9_ReconnectAttempts ==
    \A t \in TaskIds :
        (tasks[t].kind = "recv" /\ tasks[t].reconnect = "connect") =>
            tasks[t].tried > 0

\* the reconnect sequence of receive task t ends in this step, and no
\* attempt of it has opened a transport
ReconnectEndsUnconnected(t) ==
    /\ tasks[t].kind = "recv"
    /\ tasks[t].pc \in {"iter", "rc_sleeping", "c_connecting", "c_sleeping"}
    /\ tasks'[t].pc \in {"done", "raised"}
    /\ tasks'[t].reconnect # "none"

\* C10: when a reconnect sequence ends without a connection, the manager is
\* left disconnected (is_running false, no transport held) and no exception
\* leaves the receive task.
C10_ReconnectEndDisconnects ==
    [][\A t \in TaskIds :
          ReconnectEndsUnconnected(t) =>
              /\ ~is_running'
              /\ ws' = NoTransport
              /\ tasks'[t].pc # "raised"]_vars

-----------------------------------------------------------------------------
(* Claims about the subscriptions (SpecSubs) *)

\* _on_connect ends in task t in this step, on the connection it began on,
\* which is still up
FlushEnds(t) ==
    /\ tasks[t].pc = "c_on_connect"
    /\ tasks[t].it # <<>>
    /\ tasks'[t].it = <<>>
    /\ is_running /\ is_running'
    /\ ws = tasks[t].it[1].w /\ ws' = ws
    /\ transport[ws] = "open"

SentOn(w, type, sk) ==
    \E m \in wire : m.w = w /\ m.msg.type = type /\ sub_key(m.msg) = sk

\* C11: when the flush of an established connection has finished, a subscribe
\* request was written to that connection for every subscription that was
\* active when the flush began and still is, and the pending queue is empty,
\* whatever subscribe() and unsubscribe() calls ran during the flush.
C11_FlushResendsActive ==
    [][\A t \in TaskIds :
         FlushEnds(t) =>
             /\ pending_subs' = <<>>
             /\ \A sk \in tasks[t].it[1].set \cap SubKeys(active_subs) :
                    SentOn(ws, "subscribe", sk)']_vars

\* the step is a call of subscribe() or of unsubscribe()
Calls(op) == sub_call'.n = sub_call.n + 1 /\ sub_call'.op = op

ActivePairs == {e.sub : e \in {active_subs[i] : i \in {j \in 1..Len(active_subs) : active_subs[j].live}}}
PendingPairs == {pending_subs[i] : i \in 1..Len(pending_subs)}
CallPair == Subscription(sub_call.view, sub_call.key)
SendTasks == Len(SelectSeq(tasks, LAMBDA task : task.kind = "send"))

\* C15: subscribe(view, key) for a pair that is active adds no entry to the
\* active set or to the pending queue, writes no request and creates no task
\* that would; and a subscribe() for a view the registry holds a store for
\* returns that store and leaves the registry as it is.
C15_SubscribeDeduplicates ==
    [][Calls("subscribe") /\ HasSeparator(sub_call'.view) =>
          /\ CallPair' \in ActivePairs =>
                 /\ active_subs' = active_subs
                 /\ pending_subs' = pending_subs
                 /\ wire' = wire
                 /\ tasks' = tasks
          /\ (\E i \in 1..Len(stores) : stores[i].view = sub_call'.view) =>
                 /\ stores' = stores
                 /\ sub_call'.result = store_of(stores, sub_call'.view)]_vars

\* a subscribe() for an active pair has returned on a running, connected
\* client, the store it returned being the one of the first call
C15_Witness ==
    /\ sub_call.op = "subscribe"
    /\ HasSeparator(sub_call.view)
    /\ ~sub_call.recorded
    /\ CallPair \in ActivePairs
    /\ sub_call.result = 1
    /\ is_running /\ IsOpen(ws)

\* C16: after unsubscribe(view, key) the pair is neither active nor pending;
\* the call writes a request only on a connected client; and for a pair no
\* subscribe() call was made with, the active set and the pending queue are
\* left as they were.
C16_UnsubscribeRemoves ==
    [][Calls("unsubscribe") =>
          /\ CallPair' \notin ActivePairs' \cup PendingPairs'
          /\ wire' # wire => ws # NoTransport /\ is_running
          /\ CallPair' \notin subscribed =>
                 /\ ActivePairs' = ActivePairs
                 /\ pending_subs' = pending_subs]_vars

\* C18: a subscribe() with a view that has no "/" raises SubscriptionError
\* and records nothing: no subscription, no store, no request.
C18_NoSeparatorRaises ==
    [][Calls("subscribe") /\ ~HasSeparator(sub_call'.view) =>
          /\ sub_call'.result = "SubscriptionError"
          /\ UNCHANGED <<active_subs, pending_subs, stores, wire, tasks>>]_vars

-----------------------------------------------------------------------------
(* Claims about disconnect() (SpecConn) *)

\* C14: a disconnect() never raises, and one called on a manager that an
\* earlier disconnect() left disconnected has no effect of its own: it
\* leaves the manager disconnected and does not invoke the on_disconnect hook
\* a second time.
C14_DisconnectIdempotent ==
    tasks[Caller].call = "disconnect" /\ tasks[Caller].pc = "idle" =>
        /\ tasks[Caller].result = "ok"
        /\ tasks[Caller].again => Disconnected /\ ~tasks[Caller].hook

-----------------------------------------------------------------------------
(* Claims about the inbound messages (SpecRecv, SpecLife) *)

\* the messages of the entries of log that came by transport w, in order
MessagesOn(log, w) ==
    LET on == SelectSeq(log, LAMBDA e : e.w = w)
    IN  [i \in 1..Len(on) |-> on[i].msg]

\* the frames of the messages of log that decode, in order
FramesOf(log) ==
    LET dec == SelectSeq(log, LAMBDA e : ~IsNone(from_message(e.msg)))
    IN  [i \in 1..Len(dec) |-> from_message(dec[i].msg)[1]]

\* C12: the messages handled off a transport are, in order, the first
\* messages that transport delivered, none left out; and the frames handed
\* to the stores are, in order, the frames of the handled messages that
\* decode, one handling ending before the next begins.
C12_HandledInOrder ==
    /\ \A w \in 1..MaxTransports :
           MessagesOn(handled, w) \o inbox[w] = delivered[w]
    /\ routed = FramesOf(handled)
    /\ \A i \in 1..Len(handled) :
           handled[i].res = "dropped" <=> IsNone(from_message(handled[i].msg))

\* a message that does not decode was dropped and the next message of the
\* same transport was applied
C12_Witness ==
    /\ Len(handled) = 2
    /\ handled[1].w = handled[2].w
    /\ handled[1].res = "dropped"
    /\ handled[2].res = "applied"
    /\ Len(routed) = 1

\* the step handles a message, with result res
Handles(res) ==
    /\ Len(handled') = Len(handled) + 1
    /\ handled'[Len(handled')].res = res

\* C13: a message whose handling fails, because it does not decode or
\* because the handler raises on its frame, leaves the contents and the
\* order of the store as they were, and leaves the receive task iterating
\* and the connection up.
C13_FailureIsolated ==
    [][Handles("dropped") \/ Handles("failed") =>
          /\ UNCHANGED <<data, sorted_keys, key_to_sort_key>>
          /\ UNCHANGED <<ws, is_running, transport, tasks>>]_vars

\* C19: a step that handles no message leaves the contents, the order and
\* the sort configuration of the store as they were, whatever it does to
\* the connection.
C19_LifecycleKeepsData ==
    [][handled' = handled =>
          UNCHANGED <<mode, max_entries, sort_config, data, sorted_keys,
                      key_to_sort_key>>]_vars

\* the store holds an entry after a transport failed, the receive task went
\* to reconnect and the application disconnected
C19_Witness ==
    /\ data # <<>>
    /\ \E w \in 1..Len(transport) : transport[w] = "failed"
    /\ \E t \in TaskIds : tasks[t].kind = "recv" /\ tasks[t].reconnect # "none"
    /\ tasks[Caller].call = "disconnect" /\ tasks[Caller].pc = "idle"
    /\ ws = NoTransport

-----------------------------------------------------------------------------
(* Claims about the listeners (SpecListen) *)

\* the step is an apply_upsert, an apply_patch, or an apply_delete of a key
\* the store holds
Mutates ==
    \/ last_call'.op \in {"apply_upsert", "apply_patch"}
    \/ last_call'.op = "apply_delete" /\ data' # data

\* C17: every apply_upsert, apply_patch and effective apply_delete returns
\* with the mutation stored, one update queued and every listener that was
\* registered invoked exactly once, whatever the listeners do.
C17_ListenersIsolated ==
    [][Mutates =>
          /\ Len(last_updates') = 1
          /\ listener_calls' = callbacks
          /\ LET key == last_updates'[1].key
             IN  IF last_call'.op = "apply_delete" THEN ~DictHas(data', key)
                 ELSE /\ DictHas(data', key)
                      /\ DictVal(data', key) = last_updates'[1].data]_vars

\* the listeners that return or raise are isolated: over the steps in which
\* no registered listener unsubscribes, each is invoked exactly once
RaisingIsolated ==
    [][Mutates /\ (\A i \in 1..Len(callbacks) : callbacks[i] \notin OneShot) =>
          /\ Len(last_updates') = 1
          /\ listener_calls' = callbacks]_vars

-----------------------------------------------------------------------------
(* Claims about the critical section (SpecLock) *)

InSection(w) == workers[w].pc = "notify"

\* the index lists the stored keys, each under the sort key of its value
IndexComplete ==
    /\ Len(sorted_keys) = Len(data)
    /\ DOMAIN key_to_sort_key = DictKeys(data)
    /\ \A k \in DictKeys(data) :
           /\ key_to_sort_key[k] = entry_sort_key(sort_config[1], k, DictVal(data, k))
           /\ \E i \in 1..Len(sorted_keys) : sorted_keys[i] = key_to_sort_key[k]

\* C20: at most one task is inside the critical section, and it holds the
\* lock; and in every state, which is every point at which another task, a
\* reader or a listener can look, the index and the capacity bound are up to
\* date with the stored values and the mutation of the task inside the
\* section is stored.
C20_Serialized ==
    /\ \A w1, w2 \in Workers : InSection(w1) /\ InSection(w2) => w1 = w2
    /\ \A w \in Workers : InSection(w) => lock = w
    /\ IndexComplete
    /\ Len(data) <= max_entries[1]
    /\ \A w \in Workers :
           InSection(w) =>
               LET update == workers[w].update
               IN  IF update.data = Null THEN ~DictHas(data, update.key)
                   ELSE DictHas(data, update.key) =>
                            DictVal(data, update.key) = update.data

\* a task is inside the section of an upsert or patch on a full store while
\* the other task waits for the lock
C20_Witness ==
    /\ \E w \in Workers : InSection(w) /\ workers[w].update.data # Null
    /\ \E w \in Workers : workers[w].pc = "waiting"
    /\ Len(data) = MaxCap

-----------------------------------------------------------------------------
(* C21: the update stream of a store is a broadcast: of two or more tasks
   iterating the stream of one store, each gets every Update the store put,
   in the order they were put.  Checked where it can first be told: when the
   queue is empty, every consumer has got the whole log. *)
C21_Broadcast ==
    update_queue = <<>> =>
        \A c \in DOMAIN consumers : consumers[c] = update_log

RECURSIVE StreamFold(_)
\* what a consumer makes of the Updates it got: a value sets its key, a
\* tombstone removes it
StreamFold(seen) ==
    IF seen = <<>> THEN EmptyFcn
    ELSE LET update == seen[Len(seen)]
             before == StreamFold(SubSeq(seen, 1, Len(seen) - 1))
         IN  IF update.data = Null THEN FcnRemove(before, update.key)
             ELSE FcnSet(before, update.key, update.data)

(* C27: a consumer that folds the update stream of a keyed store from the
   beginning has exactly the store's contents: once it has got every Update
   put so far, its fold is the key -> value contents of the store. *)
C27_FoldIsContents ==
    \A c \in DOMAIN consumers :
        (IsKeyed /\ update_queue = <<>> /\ consumers[c] = update_log) =>
            StreamFold(consumers[c]) = Contents(data)

-----------------------------------------------------------------------------
(* Claims about the keep-alive task (SpecPing) *)

PingSentBy(t) == tasks'[t].pings > tasks[t].pings
PingFailedBy(t) == tasks'[t].ping_failed /\ ~tasks[t].ping_failed

(* C22: a ping is sent only while the manager is running with a transport:
   the task that sends it is the manager's keep-alive task, it was not
   cancelled (as disconnect() and a transport failure do) and no send of it
   has failed, and the ping goes out on the open transport the manager holds;
   a send that fails ends the loop and changes nothing else: not the running
   flag, not the transport held, not the receive task, not the reconnect
   count, no other task. *)
C22_PingsWhileConnected ==
    [][\A t \in TaskIds :
          /\ PingSentBy(t) =>
                /\ is_running /\ IsOpen(ws)
                /\ tasks'[t].w = ws
                /\ ping_task = t
                /\ ~tasks[t].cancel /\ ~tasks[t].ping_failed
                /\ ~Disconnected
          /\ PingFailedBy(t) =>
                /\ tasks'[t].pc = "done"
                /\ UNCHANGED <<is_running, ws, reconnect_attempts, receive_task,
                               ping_task, transport>>
                /\ \A u \in TaskIds \ {t} : tasks'[u] = tasks[u]]_vars

\* a disconnect() has returned on a manager one of whose keep-alive tasks
\* sent a ping and one of whose keep-alive tasks had a send fail
C22_Witness ==
    /\ tasks[Caller].call = "disconnect" /\ tasks[Caller].pc = "idle"
    /\ \E t \in TaskIds : tasks[t].pings > 0
    /\ \E t \in TaskIds : tasks[t].ping_failed

-----------------------------------------------------------------------------
(* Claims about the whole connection (SpecConn) *)

\* the transports that are up, and the tasks of a kind that are neither
\* finished nor cancelled
LiveTransports == {w \in 1..Len(transport) : transport[w] = "open"}
LiveTasks(kind) ==
    {t \in TaskIds : tasks[t].kind = kind /\ ~Finished(tasks[t]) /\ ~tasks[t].cancel}

(* C25: the manager never has more than one live transport, more than one
   receive loop or more than one keep-alive loop at a time, whatever the
   interleaving of connect() calls, hook failures, transport failures,
   reconnects and disconnect(). *)
C25_SingleConnection ==
    /\ Cardinality(LiveTransports) <= 1
    /\ Cardinality(LiveTasks("recv")) <= 1
    /\ Cardinality(LiveTasks("ping")) <= 1

-----------------------------------------------------------------------------
(* Claims about the order of the requests on the wire (SpecSubs) *)

\* the step writes a request of this type for sub to a transport
Writes(type, sub) ==
    \E w \in 1..Len(transport) :
        /\ [w |-> w, msg |-> to_dict(type, sub)] \in wire'
        /\ [w |-> w, msg |-> to_dict(type, sub)] \notin wire

\* the latest call was an unsubscribe() of sub that wrote its request
UnsubscribedLast(sub) ==
    /\ sub_call.op = "unsubscribe"
    /\ Subscription(sub_call.view, sub_call.key) = sub
    /\ \E w \in 1..Len(transport) :
           [w |-> w, msg |-> to_dict("unsubscribe", sub)] \in wire

(* C26: the requests for one (view, key) pair reach the transport in the
   order of the calls: after an unsubscribe() of the pair that completed
   while connected, no subscribe request for the pair is written unless
   subscribe() is called again. *)
C26_WireFollowsCalls ==
    [][\A sub \in SubArgs :
          (UnsubscribedLast(sub) /\ sub_call' = sub_call) =>
              ~Writes("subscribe", sub)]_vars

-----------------------------------------------------------------------------
(* Further claims about the store (Spec) *)

(* C28: reads have no side effect: get(key), get(), list_sorted() and
   keys_sorted() leave the contents, their order and the ordered index as
   they were. *)
C28_ReadsChangeNothing ==
    [][last_call'.op \in {"get", "read"} =>
          UNCHANGED <<data, sorted_keys, key_to_sort_key>>]_vars

(* C29: in a keyed store with a sort configuration the ordered index agrees
   with the contents: it lists exactly the stored keys, each once, in
   ascending order of sort key, and the sort key recorded for a key is the
   one computed from the value stored for it. *)
C29_IndexMatchesContents ==
    (IsKeyed /\ Sorted) =>
        /\ Len(sorted_keys) = Len(data)
        /\ {sorted_keys[i][3] : i \in 1..Len(sorted_keys)} = DictKeys(data)
        /\ \A i, j \in 1..Len(sorted_keys) :
               i < j => SortKeyLess(sorted_keys[i], sorted_keys[j])
        /\ DOMAIN key_to_sort_key = DictKeys(data)
        /\ \A k \in DictKeys(data) :
               /\ key_to_sort_key[k] = StoredSortKey(data, k)
               /\ \E i \in 1..Len(sorted_keys) : sorted_keys[i] = key_to_sort_key[k]

\* a patch has moved an entry of a full sorted store in the index: the index
\* order is not the dictionary order
C29_Witness ==
    /\ IsKeyed /\ Sorted /\ HasLimit
    /\ last_call.op = "apply_patch"
    /\ Len(data) = max_entries[1] /\ Len(data) >= 2
    /\ sorted_keys[1][3] # data[1].key

(* C23: apply_delete(key) on a keyed store that holds key removes the entry
   from the contents and from the ordered index, leaves the other entries as
   they are and emits one Update with a null payload; on a keyed store that
   does not hold key, and on an append-mode store, it changes nothing and
   emits no Update. *)
C23_DeleteTombstone ==
    [][last_call'.op = "apply_delete" =>
          LET key == last_call'.key
          IN  IF IsKeyed /\ DictHas(data, key)
              THEN /\ data' = DictRemove(data, key)
                   /\ DOMAIN key_to_sort_key' = DOMAIN key_to_sort_key \ {key}
                   /\ sorted_keys' = SelectSeq(sorted_keys, LAMBDA sk : sk[3] # key)
                   /\ last_updates' = <<[key |-> key, data |-> Null]>>
              ELSE /\ UNCHANGED <<data, sorted_keys, key_to_sort_key>>
                   /\ last_updates' = <<>>]_vars

\* a delete has removed an entry from a sorted store that holds another
C23_Witness ==
    /\ IsKeyed /\ Sorted
    /\ last_call.op = "apply_delete"
    /\ last_updates = <<[key |-> last_call.key, data |-> Null]>>
    /\ sorted_keys # <<>>

-----------------------------------------------------------------------------
(* The order of a sorted store, kind by kind (SpecSort) *)

\* the value of the sort field of the i-th entry keys_sorted() lists
ListedField(i) == DictGet(DictVal(data, keys_sorted[i]), "n")

(* C24: under a descending configuration two numbers, and two booleans, are
   listed from the largest to the smallest; two strings are listed in
   ascending string order under either configuration. *)
C24_DescendingByKind ==
    (IsKeyed /\ Sorted) =>
        \A i, j \in 1..Len(keys_sorted) :
            i < j =>
                LET x == ListedField(i)
                    y == ListedField(j)
                    desc == sort_config[1].order = "desc"
                IN  /\ (desc /\ x.t = "num" /\ y.t = "num") => x.v >= y.v
                    /\ (desc /\ x.t = "bool" /\ y.t = "bool") => (x.v \/ ~y.v)
                    /\ (x.t = "str" /\ y.t = "str") => StrRank(x.v) <= StrRank(y.v)

\* a descending store lists the number 2 before the number 1 against the order
\* of their keys, and the string "x" before the string "y"
C24_Witness ==
    /\ IsKeyed /\ Sorted /\ sort_config[1].order = "desc"
    /\ Len(keys_sorted) = 4
    /\ \E i, j \in 1..4 :
          /\ i < j /\ keys_sorted[i] > keys_sorted[j]
          /\ ListedField(i) = Num(2) /\ ListedField(j) = Num(1)
    /\ \E i, j \in 1..4 :
          /\ i < j
          /\ ListedField(i) = Str("x") /\ ListedField(j) = Str("y")

-----------------------------------------------------------------------------
(* Listeners that unsubscribe during a dispatch (SpecListen) *)

\* the number of times the dispatch called the listener
TimesCalled(calls, callback) ==
    Cardinality({i \in 1..Len(calls) : calls[i] = callback})

(* C30: when a listener unsubscribes from the store while the listeners are
   being invoked for an update, every listener that was registered when the
   dispatch began and is still registered when it ends has been invoked
   exactly once for that update. *)
C30_SurvivorsInvoked ==
    [][(Mutates /\ callbacks' # callbacks) =>
          \A i \in 1..Len(callbacks) :
              (\E j \in 1..Len(callbacks') : callbacks'[j] = callbacks[i]) =>
                  TimesCalled(listener_calls', callbacks[i]) = 1]_vars

=============================================================================
